---- MODULE Spec2Model ----
(***************************************************************************)
(* Real-time event fan-out core of txt2pptx: the WebSocket connection      *)
(* registry (app/websocket/manager.py), the per-connection endpoint with   *)
(* its read loop and heartbeat (app/api/websocket.py) and the webhook      *)
(* ingestion adapter (app/api/webhook.py); and, apart from them, the retry *)
(* helper (app/utils/retry.py) and the polling of an external task         *)
(* (app/manus_client/tasks.py).                                            *)
(*                                                                         *)
(* The program runs on one asyncio event loop: code between two awaits     *)
(* that really suspend is atomic.  Every action below is one such segment, *)
(* from the resumption of a coroutine to its next suspension.              *)
(***************************************************************************)
EXTENDS Integers, Sequences, FiniteSets, TLC

\* ------------------------------------------------------------------ bounds
NumHandlers == 2      \* websocket_endpoint invocations (one channel each)
NumClients  == 2      \* distinct client_id values
NumTasks    == 2      \* distinct task_id values
NumEvents   == 2      \* webhook callbacks received
MaxInputs   == 2      \* client commands / read timeouts over all connections

Handlers == 1..NumHandlers
Events   == (NumHandlers + 1)..(NumHandlers + NumEvents)
Requests == {NumHandlers + NumEvents + 1}   \* the create_task_webhook request
Workers  == {NumHandlers + NumEvents + 2}   \* a coroutine of the external-service client
Procs    == Handlers \cup Events \cup Requests \cup Workers
ClientIds == <<"c1", "c2", "c3", "c4">>
TaskIds   == <<"t1", "t2", "t3", "t4">>
Clients  == {ClientIds[i] : i \in 1..NumClients}
Tasks    == {TaskIds[i] : i \in 1..NumTasks}

None    == "None"
NoEvent == {}          \* event_id of a push that no webhook callback produced
NoSend  == [client |-> None, ws |-> 0, msg |-> None, ret |-> None]
NoArgs  == [op |-> None, client |-> None, task_id |-> None, ret |-> None]
NoFanout == [subscribers |-> <<>>, message |-> None, success_count |-> 0,
             snapshot |-> {}, results |-> <<>>]
NoCtx   == [local_task |-> FALSE, is_video_task |-> FALSE, task_step |-> None,
            video_task_id |-> None]

VARIABLES
    active_connections,   \* manager._active_connections : client_id -> channel
    task_subscriptions,   \* manager._task_subscriptions : task_id -> set of client_id
    client_tasks,         \* manager._client_tasks       : client_id -> set of task_id
    lock,                 \* manager._lock: holder at the head, waiters behind it (FIFO)
    chan,                 \* transport state of each handler's WebSocket
    closeRequested,       \* channels on which connect() called close()
    cid,                  \* client_id path parameter of each websocket_endpoint call
    pc,                   \* suspension point of every coroutine
    heartbeat,            \* state of each handler's heartbeat_task
    snd,                  \* send_to_client call in flight, per coroutine
    args,                 \* manager call waiting for the lock, per coroutine
    sent,                 \* messages delivered on each channel, in order
    pending,              \* send_json calls in flight on each channel, oldest first
    inputs,               \* client commands and read timeouts consumed so far
    event,                \* payload of each webhook callback (None until received)
    fanout,               \* send_to_task_subscribers: rest of the snapshot, message, count;
                          \* history: the subscriber set at the call, and the
                          \* send_to_client calls that have returned with their results
    ctx,                  \* locals of each handle_webhook_event call
    calls,                \* send_to_task_subscribers calls made for each event
    raised                \* collaborator calls that raised while handling each event

regVars == <<active_connections, task_subscriptions, client_tasks>>
evVars  == <<event, fanout, ctx, calls, raised>>
vars == <<active_connections, task_subscriptions, client_tasks, lock, chan,
          closeRequested, cid, pc, heartbeat, snd, args, sent, pending, inputs,
          event, fanout, ctx, calls, raised>>

\* ------------------------------------------------------- dict operations
DictSet(d, k, v) == [x \in DOMAIN d \cup {k} |-> IF x = k THEN v ELSE d[x]]
DictDel(d, k)    == [x \in DOMAIN d \ {k} |-> d[x]]
EmptyDict        == [x \in {} |-> 0]

\* A server push.  kind is the message's type, "+download_url" appended when
\* the message carries a download_url member; event_id holds the webhook
\* callback the push was produced for (NoEvent for replies to client commands).
WithDownloadUrl == {"task_completed+download_url", "video_generation_completed"}
Message(kind, task_id, event_id) ==
    [type |-> IF kind = "task_completed+download_url" THEN "task_completed" ELSE kind,
     task_id |-> task_id, event_id |-> event_id,
     download_url |-> kind \in WithDownloadUrl, timestamp |-> TRUE]

\* ------------------------------------------------- registry (pure parts)
\* ConnectionManager.is_connected
is_connected(client_id) == client_id \in DOMAIN active_connections

\* ConnectionManager.get_stats, on a connection table and a
\* task-to-subscribers index
StatsOf(connections, subscriptions) ==
    [active_connections     |-> Cardinality(DOMAIN connections),
     task_subscriptions     |-> Cardinality(DOMAIN subscriptions),
     clients                |-> DOMAIN connections,
     tasks_with_subscribers |-> DOMAIN subscriptions]

get_stats == StatsOf(active_connections, task_subscriptions)

\* (mutant) first writer wins: an existing entry is kept
Register_KeepsOld(client_id, websocket) ==
    /\ active_connections' =
          IF client_id \in DOMAIN active_connections THEN active_connections
          ELSE DictSet(active_connections, client_id, websocket)
    /\ client_tasks' = DictSet(client_tasks, client_id, {})
    /\ UNCHANGED task_subscriptions

\* the registration at the end of connect()'s critical section
Register(client_id, websocket) ==
    /\ active_connections' = DictSet(active_connections, client_id, websocket)
    /\ client_tasks' = DictSet(client_tasks, client_id, {})
    /\ UNCHANGED task_subscriptions

\* disconnect() discarding the client from its tasks' subscriber sets
\* without deleting a set that became empty
DisconnectCS_KeepsEmpty(client_id) ==
    IF client_id \notin DOMAIN active_connections
    THEN UNCHANGED regVars
    ELSE LET mine == IF client_id \in DOMAIN client_tasks
                     THEN client_tasks[client_id] ELSE {}
         IN /\ active_connections' = DictDel(active_connections, client_id)
            /\ task_subscriptions' =
                  [t \in DOMAIN task_subscriptions |->
                      IF t \in mine
                      THEN task_subscriptions[t] \ {client_id}
                      ELSE task_subscriptions[t]]
            /\ client_tasks' = DictDel(client_tasks, client_id)

\* (mutant) disconnect() deleting the entries of the client's tasks
\* together with their other subscribers
DisconnectCS_DropsTasks(client_id) ==
    IF client_id \notin DOMAIN active_connections
    THEN UNCHANGED regVars
    ELSE LET mine == IF client_id \in DOMAIN client_tasks
                     THEN client_tasks[client_id] ELSE {}
         IN /\ active_connections' = DictDel(active_connections, client_id)
            /\ task_subscriptions' =
                  [t \in DOMAIN task_subscriptions \ mine |-> task_subscriptions[t]]
            /\ client_tasks' = DictDel(client_tasks, client_id)

\* the critical section of disconnect()
DisconnectCS(client_id) ==
    IF client_id \notin DOMAIN active_connections
    THEN UNCHANGED regVars
    ELSE LET mine == IF client_id \in DOMAIN client_tasks
                     THEN client_tasks[client_id] ELSE {}
             keep == {t \in DOMAIN task_subscriptions :
                         ~(t \in mine /\ task_subscriptions[t] \ {client_id} = {})}
         IN /\ active_connections' = DictDel(active_connections, client_id)
            /\ task_subscriptions' =
                  [t \in keep |-> IF t \in mine
                                  THEN task_subscriptions[t] \ {client_id}
                                  ELSE task_subscriptions[t]]
            /\ client_tasks' = DictDel(client_tasks, client_id)

\* subscribe_task() without the test for a live connection
SubscribeCS_NoCheck(client_id, task_id) ==
    /\ task_subscriptions' =
          DictSet(task_subscriptions, task_id,
                  (IF task_id \in DOMAIN task_subscriptions
                   THEN task_subscriptions[task_id] ELSE {}) \cup {client_id})
    /\ client_tasks' =
          DictSet(client_tasks, client_id,
                  (IF client_id \in DOMAIN client_tasks
                   THEN client_tasks[client_id] ELSE {}) \cup {task_id})
    /\ UNCHANGED active_connections

\* subscribe_task() taking a pair that is already subscribed out again
SubscribeCS_Toggles(client_id, task_id) ==
    IF client_id \notin DOMAIN active_connections
    THEN UNCHANGED regVars
    ELSE IF task_id \in client_tasks[client_id]
    THEN /\ task_subscriptions' =
               IF task_subscriptions[task_id] \ {client_id} = {}
               THEN DictDel(task_subscriptions, task_id)
               ELSE [task_subscriptions EXCEPT ![task_id] = @ \ {client_id}]
         /\ client_tasks' =
               [client_tasks EXCEPT ![client_id] = @ \ {task_id}]
         /\ UNCHANGED active_connections
    ELSE /\ task_subscriptions' =
               DictSet(task_subscriptions, task_id,
                       (IF task_id \in DOMAIN task_subscriptions
                        THEN task_subscriptions[task_id] ELSE {}) \cup {client_id})
         /\ client_tasks' =
               [client_tasks EXCEPT ![client_id] = @ \cup {task_id}]
         /\ UNCHANGED active_connections

\* the critical section of subscribe_task()
SubscribeCS(client_id, task_id) ==
    IF client_id \notin DOMAIN active_connections
    THEN UNCHANGED regVars
    ELSE /\ task_subscriptions' =
               DictSet(task_subscriptions, task_id,
                       (IF task_id \in DOMAIN task_subscriptions
                        THEN task_subscriptions[task_id] ELSE {}) \cup {client_id})
         /\ client_tasks' =
               [client_tasks EXCEPT ![client_id] = @ \cup {task_id}]
         /\ UNCHANGED active_connections

\* unsubscribe_task() deleting the task's entry without the emptiness test
UnsubscribeCS_DropsTask(client_id, task_id) ==
    /\ task_subscriptions' =
          IF task_id \in DOMAIN task_subscriptions
          THEN DictDel(task_subscriptions, task_id)
          ELSE task_subscriptions
    /\ client_tasks' =
          IF client_id \in DOMAIN client_tasks
          THEN [client_tasks EXCEPT ![client_id] = @ \ {task_id}]
          ELSE client_tasks
    /\ UNCHANGED active_connections

\* (mutant) unsubscribe_task forgetting the task-to-subscribers index
UnsubscribeCS_KeepsSubscriber(client_id, task_id) ==
    /\ client_tasks' =
          IF client_id \in DOMAIN client_tasks
          THEN [client_tasks EXCEPT ![client_id] = @ \ {task_id}]
          ELSE client_tasks
    /\ UNCHANGED <<active_connections, task_subscriptions>>

\* the critical section of unsubscribe_task()
UnsubscribeCS(client_id, task_id) ==
    /\ task_subscriptions' =
          IF task_id \in DOMAIN task_subscriptions
          THEN IF task_subscriptions[task_id] \ {client_id} = {}
               THEN DictDel(task_subscriptions, task_id)
               ELSE [task_subscriptions EXCEPT ![task_id] = @ \ {client_id}]
          ELSE task_subscriptions
    /\ client_tasks' =
          IF client_id \in DOMAIN client_tasks
          THEN [client_tasks EXCEPT ![client_id] = @ \ {task_id}]
          ELSE client_tasks
    /\ UNCHANGED active_connections

\* ------------------------------------------------------ webhook payloads
Detail(present, task_id, stop_reason) ==
    [present |-> present, task_id |-> task_id, stop_reason |-> stop_reason]
NoDetail == Detail(FALSE, None, None)

\* ManusWebhookPayload: the nested task_detail / progress_detail and the
\* flat task_id
ManusWebhookPayload(event_type, task_detail, progress_detail, task_id) ==
    [event_type |-> event_type, task_detail |-> task_detail,
     progress_detail |-> progress_detail, task_id |-> task_id]
NoPayload == ManusWebhookPayload(None, NoDetail, NoDetail, None)

\* payloads that pass the endpoint's validation (every field but event_id
\* and event_type is optional)
Payloads ==
    {ManusWebhookPayload("task_created", Detail(TRUE, t, None), NoDetail, None) :
        t \in Tasks}
    \cup {ManusWebhookPayload("task_progress", NoDetail, Detail(TRUE, t, None), None) :
        t \in Tasks}
    \cup {ManusWebhookPayload("task_stopped", Detail(TRUE, t, r), NoDetail, None) :
        t \in Tasks, r \in {"finish", "ask", None}}
    \cup {ManusWebhookPayload("task_archived", NoDetail, NoDetail, t) : t \in Tasks}
    \cup {ManusWebhookPayload("task_created", NoDetail, NoDetail, None)}

\* ManusWebhookPayload.get_task_id; None stands for the ValueError it raises
get_task_id(payload) ==
    IF payload.task_detail.present THEN payload.task_detail.task_id
    ELSE IF payload.progress_detail.present THEN payload.progress_detail.task_id
    ELSE IF payload.task_id # None THEN payload.task_id
    ELSE None

\* payload.task_detail.stop_reason if payload.task_detail else None
stop_reason(payload) ==
    IF payload.task_detail.present THEN payload.task_detail.stop_reason ELSE None

\* list(self._task_subscriptions[task_id]): the snapshot of a subscriber set.
\* A set that is not modified is iterated in the same order by every call;
\* client ids being interchangeable, the order of ClientIds stands for it.
list(S) == SelectSeq(ClientIds, LAMBDA c : c \in S)

\* the loop of send_to_task_subscribers runs without suspending over the
\* clients for which send_to_client returns False at its lookup
RECURSIVE SkipDisconnected(_, _)
SkipDisconnected(subscribers, connected) ==
    IF subscribers = <<>> THEN <<>>
    ELSE IF Head(subscribers) \in connected THEN subscribers
    ELSE SkipDisconnected(Tail(subscribers), connected)

\* websocket.send_json up to its suspension: the frame goes out on an open
\* channel, in the order of the calls
Written(ws, message) ==
    [sent EXCEPT ![ws] = IF chan'[ws] = "open" THEN Append(@, message) ELSE @]

\* the calls in flight once the send_json call of p, if it is in one, is over
Popped(p) ==
    IF pc[p] = "send" THEN [pending EXCEPT ![snd[p].ws] = Tail(@)] ELSE pending

\* the calls in flight once p has suspended in send_json on channel ws
Pushed(p, ws) == [Popped(p) EXCEPT ![ws] = Append(@, p)]

\* the handler of event e suspends at `label` (or is over, at "done")
Park(e, label, cs) ==
    /\ pc'     = [pc EXCEPT ![e] = label]
    /\ snd'    = [snd EXCEPT ![e] = NoSend]
    /\ args'   = [args EXCEPT ![e] = NoArgs]
    /\ fanout' = [fanout EXCEPT ![e] = NoFanout]
    /\ calls'  = [calls EXCEPT ![e] = cs]
    /\ pending' = Popped(e)
    /\ UNCHANGED <<heartbeat, sent>>

\* the subscriber set a send_to_task_subscribers call started from
Started(subscribers) == [snapshot |-> subscribers, results |-> <<>>]

\* send_to_client returned ok for client_id
Returned(hist, client_id, ok) ==
    [hist EXCEPT !.results = Append(@, [client |-> client_id, ok |-> ok])]

\* send_to_client returned False at its lookup for the clients of
\* subscribers that come before rest
RECURSIVE Skipped(_, _, _)
Skipped(hist, subscribers, rest) ==
    IF Len(subscribers) = Len(rest) THEN hist
    ELSE Skipped(Returned(hist, Head(subscribers), FALSE), Tail(subscribers), rest)

\* the handler of event e suspends in websocket.send_json for the first
\* client of rest
InFlight(e, rest, message, count, next, cs, hist) ==
    /\ pc'     = [pc EXCEPT ![e] = "send"]
    /\ snd'    = [snd EXCEPT ![e] =
                     [client |-> Head(rest), ws |-> active_connections'[Head(rest)],
                      msg |-> message, ret |-> next]]
    /\ args'   = [args EXCEPT ![e] = NoArgs]
    /\ fanout' = [fanout EXCEPT ![e] =
                     [subscribers |-> Tail(rest), message |-> message,
                      success_count |-> count,
                      snapshot |-> hist.snapshot, results |-> hist.results]]
    /\ calls'  = [calls EXCEPT ![e] = cs]
    /\ sent'   = Written(active_connections'[Head(rest)], message)
    /\ pending' = Pushed(e, active_connections'[Head(rest)])
    /\ UNCHANGED heartbeat

Call_(task_id, kind) == [task_id |-> task_id, type |-> Message(kind, task_id, NoEvent).type]

\* a fan-out that is the last statement of the handler
LaunchLast(e, task_id, type, cs) ==
    IF task_id \notin DOMAIN task_subscriptions'
    THEN Park(e, "done", Append(cs, Call_(task_id, type)))
    ELSE LET order == list(task_subscriptions'[task_id]) IN
            LET rest == SkipDisconnected(order, DOMAIN active_connections')
            IN  IF rest = <<>>
                THEN Park(e, "done", Append(cs, Call_(task_id, type)))
                ELSE InFlight(e, rest, Message(type, task_id, {e}), 0, "end",
                              Append(cs, Call_(task_id, type)),
                              Skipped(Started(task_subscriptions'[task_id]), order, rest))

\* The replay of a recorded video task (replay_webhook_events): the ids of
\* the local task, of its script task and of its video task
replay_local_task_id  == TaskIds[1]
replay_script_task_id == TaskIds[2]
replay_video_task_id  == TaskIds[3]

\* convert_webhook_to_websocket_message: the type of the push a recorded
\* event is turned into, None when the event yields no push
convert_webhook_to_websocket_message(event_type, task_id) ==
    LET is_script_task == task_id = replay_script_task_id
        is_video_task  == task_id = replay_video_task_id
    IN  CASE event_type = "task_created" ->
                IF is_video_task THEN "video_generation_started" ELSE None
          [] event_type = "task_progress" ->
                IF is_script_task THEN "script_generation_progress"
                ELSE IF is_video_task THEN "video_generation_progress" ELSE None
          [] event_type = "task_stopped" ->
                IF is_script_task THEN "script_generation_completed"
                ELSE IF is_video_task THEN "video_generation_completed" ELSE None
          [] OTHER -> None

\* ws_message of the recorded event e
ReplayMessage(e) ==
    Message(convert_webhook_to_websocket_message(event'[e].event_type,
                                                 get_task_id(event'[e])),
            get_task_id(event'[e]), {e})

\* replay_webhook_events: the same ws_message goes to the subscribers of
\* replay_local_task_id as well
LaunchLocal(e, cs) ==
    LET message == ReplayMessage(e)
        cs2     == Append(cs, [task_id |-> replay_local_task_id, type |-> message.type])
    IN  IF replay_local_task_id \notin DOMAIN task_subscriptions'
        THEN Park(e, "done", cs2)
        ELSE LET order == list(task_subscriptions'[replay_local_task_id])
                 rest  == SkipDisconnected(order, DOMAIN active_connections')
             IN  IF rest = <<>>
                 THEN Park(e, "done", cs2)
                 ELSE InFlight(e, rest, message, 0, "end", cs2,
                               Skipped(Started(task_subscriptions'[replay_local_task_id]),
                                       order, rest))

\* what follows a send_to_task_subscribers call, up to the next suspension:
\*   "local":    replay_webhook_events goes on to the subscribers of
\*               local_task_id;
\*   "end":      the handler returns;
\*   "dispatch": handle_webhook_event dispatches on event_type, each known
\*               type awaiting tracker.find_by_manus_task_id first;
\*   "started":  the second fan-out of the script_generation branch, to the
\*               subscribers of video_task_id;
\*   "update":   tracker.update(status="failed") after a *_failed push.
AfterFanout(e, next, cs) ==
    CASE next = "dispatch" ->
            Park(e, IF event[e].event_type \in {"task_created", "task_progress", "task_stopped"}
                    THEN "find" ELSE "done", cs)
      [] next = "started" ->
            LaunchLast(e, ctx'[e].video_task_id, "video_generation_started", cs)
      [] next = "update" -> Park(e, "update_failed", cs)
      [] next = "local" -> LaunchLocal(e, cs)
      [] OTHER -> Park(e, "done", cs)

\* the loop of send_to_task_subscribers from `subscribers` on
Deliver(e, subscribers, message, count, next, cs, hist) ==
    LET rest == SkipDisconnected(subscribers, DOMAIN active_connections')
    IN  IF rest = <<>>
        THEN AfterFanout(e, next, cs)
        ELSE InFlight(e, rest, message, count, next, cs,
                      Skipped(hist, subscribers, rest))

\* send_to_task_subscribers falling back to every connected client when the
\* task has no entry
Launch_Broadcasts(e, task_id, type, next) ==
    LET cs == Append(calls[e], Call_(task_id, type))
        subscribers == IF task_id \in DOMAIN task_subscriptions'
                       THEN task_subscriptions'[task_id]
                       ELSE DOMAIN active_connections'
    IN  Deliver(e, list(subscribers), Message(type, task_id, {e}), 0, next, cs,
                Started(subscribers))

\* send_to_task_subscribers(task_id, {"type": type, ...}) called for event e
Launch(e, task_id, type, next) ==
    LET cs == Append(calls[e], Call_(task_id, type))
    IN  IF task_id \notin DOMAIN task_subscriptions'
        THEN AfterFanout(e, next, cs)
        ELSE LET order == list(task_subscriptions'[task_id]) IN
                Deliver(e, order, Message(type, task_id, {e}), 0, next, cs,
                        Started(task_subscriptions'[task_id]))

\* the client of the send_to_client call of coroutine p that is returning
Current(p) == IF pc[p] = "send" THEN snd[p].client ELSE args[p].client

\* (mutant) every send_to_client call is counted, whatever it returned
EventReturn_CountsAll(e, ret, ok) ==
    /\ UNCHANGED <<event, ctx, raised>>
    /\ Deliver(e, fanout[e].subscribers, fanout[e].message,
               fanout[e].success_count + 1, ret, calls[e],
               Returned([snapshot |-> fanout[e].snapshot, results |-> fanout[e].results],
                        Current(e), ok))

\* send_to_client returned to the loop of send_to_task_subscribers
EventReturn(e, ret, ok) ==
    /\ UNCHANGED <<event, ctx, raised>>
    /\ Deliver(e, fanout[e].subscribers, fanout[e].message,
               fanout[e].success_count + (IF ok THEN 1 ELSE 0), ret, calls[e],
               Returned([snapshot |-> fanout[e].snapshot, results |-> fanout[e].results],
                        Current(e), ok))

\* ------------------------------------------------- control flow helpers
Goto(p, label) ==
    /\ pc'   = [pc EXCEPT ![p] = label]
    /\ snd'  = [snd EXCEPT ![p] = NoSend]
    /\ args' = [args EXCEPT ![p] = NoArgs]

\* heartbeat_task.cancel() in the endpoint's finally block
Cancel(hb) == IF hb = "running" THEN "cancelled" ELSE hb

\* A manager call made by a connection handler returns to its caller, which
\* runs on to its next suspension:
\*   "connected": connect() returns True, the endpoint creates the heartbeat
\*                task and enters the read loop;
\*   "recv":      back to the top of the read loop;
\*   "done":      the endpoint's finally block is over.
HandlerReturn(h, ret) ==
    /\ Goto(h, IF ret = "done" THEN "done" ELSE "recv")
    /\ heartbeat' = [heartbeat EXCEPT ![h] =
                        IF ret = "connected" THEN "running"
                        ELSE IF ret = "done" THEN Cancel(@) ELSE @]
    /\ pending' = Popped(h)
    /\ UNCHANGED <<sent, evVars>>

\* A manager call made by create_task_webhook returns to it:
\*   "manus": subscribe_task(client_id, local_task.id) is over, the request
\*            goes on to task_manager.create_task;
\*   "close": subscribe_task(client_id, manus_task_id) is over, the request
\*            goes on to client.close();
\*   "raise": the task_failed push is over, the request raises HTTPException.
\* args keeps request.client_id while the request is suspended.
RequestReturn(r, ret) ==
    /\ pc'   = [pc EXCEPT ![r] = CASE ret = "manus" -> "manus_create"
                                   [] ret = "close" -> "client_close"
                                   [] OTHER -> "done"]
    /\ snd'  = [snd EXCEPT ![r] = NoSend]
    /\ args' = [args EXCEPT ![r] =
                    IF ret \in {"manus", "close"}
                    THEN [op |-> "create", client |-> Current(r), task_id |-> None,
                          ret |-> None]
                    ELSE NoArgs]
    /\ pending' = Popped(r)
    /\ UNCHANGED <<heartbeat, sent, evVars>>

Return(p, ret, ok) ==
    IF p \in Handlers THEN HandlerReturn(p, ret)
    ELSE IF p \in Requests THEN RequestReturn(p, ret)
    ELSE EventReturn(p, ret, ok)

\* send_to_client up to its await: the lookup in the connection table, made
\* on the table as the current step leaves it
SendToClient(p, client_id, message, ret) ==
    IF client_id \in DOMAIN active_connections'
    THEN /\ pc'   = [pc EXCEPT ![p] = "send"]
         /\ sent' = Written(active_connections'[client_id], message)
         /\ pending' = Pushed(p, active_connections'[client_id])
         /\ snd'  = [snd EXCEPT ![p] =
                        [client |-> client_id, ws |-> active_connections'[client_id],
                         msg |-> message, ret |-> ret]]
         /\ args' = [args EXCEPT ![p] = NoArgs]
         /\ UNCHANGED <<heartbeat, evVars>>
    ELSE Return(p, ret, FALSE)

\* The body of a manager method from the acquisition of the lock on; rest is
\* the lock queue once this coroutine has released the lock.
RunCS(p, a, rest) ==
    CASE a.op = "connect" ->
            IF a.client \in DOMAIN active_connections
            THEN \* await old_ws.close() with the lock held
                 /\ closeRequested' = closeRequested \cup {active_connections[a.client]}
                 /\ lock' = <<p>> \o rest
                 /\ pc'   = [pc EXCEPT ![p] = "close"]
                 /\ args' = [args EXCEPT ![p] = a]
                 /\ UNCHANGED <<regVars, snd, heartbeat, sent, pending, evVars>>
            ELSE /\ Register(a.client, p)
                 /\ lock' = rest
                 /\ UNCHANGED closeRequested
                 /\ SendToClient(p, a.client, Message("connected", None, NoEvent), "connected")
      [] a.op = "disconnect" ->
            /\ DisconnectCS(a.client)
            /\ lock' = rest
            /\ UNCHANGED closeRequested
            /\ Return(p, a.ret, FALSE)
      [] a.op = "subscribe" ->
            /\ SubscribeCS(a.client, a.task_id)
            /\ lock' = rest
            /\ UNCHANGED closeRequested
            /\ IF a.client \in DOMAIN active_connections
               THEN SendToClient(p, a.client, Message("subscribed", a.task_id, NoEvent), a.ret)
               ELSE Return(p, a.ret, FALSE)
      [] a.op = "unsubscribe" ->
            /\ UnsubscribeCS(a.client, a.task_id)
            /\ lock' = rest
            /\ UNCHANGED closeRequested
            /\ Return(p, a.ret, FALSE)

\* `async with self._lock`: asyncio.Lock.acquire() does not suspend when the
\* lock is free and nobody waits; otherwise the caller queues up
Call(p, a) ==
    IF lock = <<>>
    THEN RunCS(p, a, <<>>)
    ELSE /\ lock' = Append(lock, p)
         /\ pc'   = [pc EXCEPT ![p] = "lock"]
         /\ args' = [args EXCEPT ![p] = a]
         /\ snd'  = [snd EXCEPT ![p] = NoSend]
         /\ heartbeat' = IF a.ret = "done"
                         THEN [heartbeat EXCEPT ![p] = Cancel(@)] ELSE heartbeat
         /\ pending' = Popped(p)
         /\ UNCHANGED <<regVars, closeRequested, sent, evVars>>

\* a send_to_client call that needs no lock before its lookup
DirectSend(p, client_id, message, ret) ==
    /\ UNCHANGED <<regVars, lock, closeRequested>>
    /\ SendToClient(p, client_id, message, ret)

Op(op, client_id, task_id, ret) ==
    [op |-> op, client |-> client_id, task_id |-> task_id, ret |-> ret]

\* the finally block of websocket_endpoint
Finally(h) == Call(h, Op("disconnect", cid[h], None, "done"))

\* --------------------------------------------- client commands (parsing)
\* Texts a client may send.  json is what the text is as JSON; action and
\* task_id are the members of an object ("" is the empty string, None a
\* missing or null member).
Actions == {"subscribe", "unsubscribe", "ping", "pong", "stats", "bogus", None}
RawMessages ==
    {[json |-> j, action |-> None, task_id |-> None] :
        j \in {"invalid", "array", "number", "string", "null"}}
    \cup {[json |-> "object", action |-> a, task_id |-> t] :
            a \in {"subscribe", "unsubscribe"}, t \in Tasks \cup {None, ""}}
    \cup {[json |-> "object", action |-> a, task_id |-> None] :
            a \in Actions \ {"subscribe", "unsubscribe"}}

\* json.loads: raises JSONDecodeError on text that is not JSON, otherwise
\* returns the Python value the text denotes
json_loads(raw_data) ==
    IF raw_data.json = "invalid"
    THEN [raised |-> "JSONDecodeError", type |-> None,
          action |-> None, task_id |-> None]
    ELSE [raised |-> None,
          type   |-> CASE raw_data.json = "object" -> "dict"
                       [] raw_data.json = "array"  -> "list"
                       [] raw_data.json = "number" -> "int"
                       [] raw_data.json = "string" -> "str"
                       [] raw_data.json = "null"   -> "NoneType",
          action |-> raw_data.action, task_id |-> raw_data.task_id]

\* message.get(...) exists on a dict only; on any other value the attribute
\* lookup raises AttributeError
HasGet(message) == message.type = "dict"

\* `not task_id`
Falsy(task_id) == task_id \in {None, ""}

\* _handle_client_message, run to the next suspension of the handler; an
\* exception that leaves it lands in the endpoint's `except Exception` and
\* then in its finally block
HandleClientMessage(h, raw_data) ==
    LET message == json_loads(raw_data)
        client_id == cid[h]
        Error == Message("error", None, NoEvent)
    IN  IF message.raised # None
        THEN DirectSend(h, client_id, Error, "recv")
        ELSE IF ~HasGet(message)
        THEN Finally(h)
        ELSE CASE message.action = "subscribe" ->
                    IF Falsy(message.task_id)
                    THEN DirectSend(h, client_id, Error, "recv")
                    ELSE Call(h, Op("subscribe", client_id, message.task_id, "recv"))
               [] message.action = "unsubscribe" ->
                    IF Falsy(message.task_id)
                    THEN DirectSend(h, client_id, Error, "recv")
                    ELSE Call(h, Op("unsubscribe", client_id, message.task_id, "recv"))
               [] message.action = "ping" ->
                    DirectSend(h, client_id, Message("pong", None, NoEvent), "recv")
               [] message.action = "pong" ->
                    /\ UNCHANGED <<regVars, lock, closeRequested>>
                    /\ Return(h, "recv", TRUE)
               [] message.action = "stats" ->
                    DirectSend(h, client_id, Message("stats", None, NoEvent), "recv")
               [] OTHER ->
                    DirectSend(h, client_id, Error, "recv")

\* ------------------------------------------------ connection handlers
\* a browser opens /ws/{client_id}: websocket_endpoint starts and awaits
\* websocket.accept() inside manager.connect
Open(h, client_id) ==
    /\ pc[h] = "init"
    /\ \A g \in Handlers : g < h => pc[g] # "init"
    /\ cid'  = [cid EXCEPT ![h] = client_id]
    /\ chan' = [chan EXCEPT ![h] = "connecting"]
    /\ pc'   = [pc EXCEPT ![h] = "accept"]
    /\ UNCHANGED <<regVars, lock, closeRequested, heartbeat, snd, args, sent, pending,
                   inputs, evVars>>

\* the peer of a channel goes away (closes the socket, loses the network)
PeerDrop(h) ==
    /\ chan[h] \in {"connecting", "open"}
    /\ chan' = [chan EXCEPT ![h] = "dead"]
    /\ UNCHANGED <<regVars, lock, closeRequested, cid, pc, heartbeat, snd, args,
                   sent, pending, inputs, evVars>>

\* websocket.accept() raises: connect returns False, the endpoint returns
AcceptFail(h) ==
    /\ pc[h] = "accept"
    /\ chan[h] = "dead"
    /\ Goto(h, "done")
    /\ UNCHANGED <<regVars, lock, chan, closeRequested, cid, heartbeat, sent, pending,
                   inputs, evVars>>

\* websocket.accept() returns: connect goes on to its critical section
Accept(h) ==
    /\ pc[h] = "accept"
    /\ chan[h] = "connecting"
    /\ chan' = [chan EXCEPT ![h] = "open"]
    /\ UNCHANGED <<cid, inputs>>
    /\ Call(h, Op("connect", cid[h], None, "connected"))

\* a coroutine queued on the lock gets it
Locked(p) ==
    /\ pc[p] = "lock"
    /\ lock # <<>> /\ Head(lock) = p
    /\ UNCHANGED <<chan, cid, inputs>>
    /\ RunCS(p, args[p], Tail(lock))

\* old_ws.close() returns or raises (ignored); the new channel replaces it
CloseDone(h) ==
    /\ pc[h] = "close"
    /\ LET old_ws == active_connections[args[h].client]
       IN chan' = [chan EXCEPT ![old_ws] = IF @ = "open" THEN "closed" ELSE @]
    /\ Register(args[h].client, h)
    /\ lock' = Tail(lock)
    /\ UNCHANGED <<closeRequested, cid, inputs>>
    /\ SendToClient(h, args[h].client, Message("connected", None, NoEvent), "connected")

\* websocket.send_json returns: send_to_client returns True. The calls on
\* one channel return in the order they were made.
SendOk(p) ==
    /\ pc[p] = "send"
    /\ Head(pending[snd[p].ws]) = p
    /\ chan[snd[p].ws] = "open"
    /\ UNCHANGED <<regVars, lock, closeRequested, chan, cid, inputs>>
    /\ Return(p, snd[p].ret, TRUE)

\* websocket.send_json raises: send_to_client disconnects the client_id
SendFail(p) ==
    /\ pc[p] = "send"
    /\ Head(pending[snd[p].ws]) = p
    /\ chan[snd[p].ws] # "open"
    /\ UNCHANGED <<chan, cid, inputs>>
    /\ Call(p, Op("disconnect", snd[p].client, None, snd[p].ret))

\* websocket.receive_text() returns a text frame
Receive(h, raw_data) ==
    /\ pc[h] = "recv"
    /\ chan[h] = "open"
    /\ inputs < MaxInputs
    /\ inputs' = inputs + 1
    /\ UNCHANGED <<chan, cid>>
    /\ HandleClientMessage(h, raw_data)

\* the read timeout leaving the read loop, so that the finally block runs
Timeout_Closes(h) ==
    /\ pc[h] = "recv"
    /\ chan[h] = "open"
    /\ inputs < MaxInputs
    /\ inputs' = inputs + 1
    /\ UNCHANGED <<chan, cid>>
    /\ Finally(h)

\* asyncio.wait_for times out after 60 s of silence: the endpoint pings
Timeout(h) ==
    /\ pc[h] = "recv"
    /\ chan[h] = "open"
    /\ inputs < MaxInputs
    /\ inputs' = inputs + 1
    /\ UNCHANGED <<chan, cid>>
    /\ DirectSend(h, cid[h], Message("ping", None, NoEvent), "recv")

\* websocket.receive_text() raises (WebSocketDisconnect, or a RuntimeError on
\* a channel the server closed): the endpoint's finally block runs
ReceiveFail(h) ==
    /\ pc[h] = "recv"
    /\ chan[h] \in {"closed", "dead"}
    /\ UNCHANGED <<chan, cid, inputs>>
    /\ Finally(h)

\* _heartbeat_checker wakes from its sleep and finds the client_id gone
HeartbeatExit(h) ==
    /\ heartbeat[h] = "running"
    /\ ~is_connected(cid[h])
    /\ heartbeat' = [heartbeat EXCEPT ![h] = "exited"]
    /\ UNCHANGED <<regVars, lock, chan, closeRequested, cid, pc, snd, args, sent, pending,
                   inputs, evVars>>

\* ------------------------------------------------ webhook event handlers
\* what an event handler step leaves alone besides the handler's own state
EvFrame ==
    UNCHANGED <<regVars, lock, chan, closeRequested, cid, inputs>>

Raise(e, what) == raised' = [raised EXCEPT ![e] = @ \cup {what}]

\* an exception reaches a frame that does not catch it: the background task
\* of the callback ends with the exception
Except_Propagates(e, what) ==
    /\ Raise(e, what)
    /\ Park(e, "escaped", calls[e])

\* the `except Exception` of handle_webhook_event: the exception is logged
\* and the handler returns
Except(e, what) ==
    /\ Raise(e, what)
    /\ Park(e, "done", calls[e])

\* a collaborator call of event e returned or raised (FALSE)
Outcomes == {TRUE, FALSE}

\* manus_webhook accepts a callback and schedules handle_webhook_event, which
\* runs up to `await tracker.add_webhook_event`; callbacks are accepted in
\* the order of the event ids
EventReceive(e, payload) ==
    /\ pc[e] = "init"
    /\ \A d \in Events : d < e => pc[d] # "init"
    /\ event' = [event EXCEPT ![e] = payload]
    /\ EvFrame
    /\ UNCHANGED ctx
    /\ IF get_task_id(payload) = None
       THEN Except(e, "get_task_id")
       ELSE /\ UNCHANGED raised
            /\ Park(e, "add_event", calls[e])

\* tracker.add_webhook_event returns, and the "webhook_event" push follows,
\* or raises into the handler's `except Exception`
AddEventDone(e, ok) ==
    /\ pc[e] = "add_event"
    /\ EvFrame
    /\ UNCHANGED <<event, ctx>>
    /\ IF ok
       THEN /\ UNCHANGED raised
            /\ Launch(e, get_task_id(event[e]), "webhook_event", "dispatch")
       ELSE /\ Except(e, "add_webhook_event")

\* handle_task_stopped once local_task, is_video_task and task_step are known
StoppedDispatch(e, c) ==
    LET task_id == get_task_id(event[e])
    IN  CASE stop_reason(event[e]) = "finish" ->
                IF c.is_video_task
                THEN Park(e, CASE c.task_step = "script_generation" -> "chain"
                               [] c.task_step = "video_generation"  -> "video"
                               [] OTHER -> "done", calls[e])
                ELSE IF c.local_task
                THEN Park(e, "download", calls[e])
                ELSE Launch(e, task_id, "task_completed", "end")
          [] stop_reason(event[e]) = "ask" ->
                IF c.local_task THEN Park(e, "update_ask", calls[e])
                ELSE Launch(e, task_id, "task_ask", "end")
          [] OTHER ->
                IF c.local_task THEN Park(e, "update_stopped", calls[e])
                ELSE Launch(e, task_id, "task_failed", "end")

\* tracker.find_by_manus_task_id returns (found or not) or raises, in
\* handle_task_created, handle_task_progress or handle_task_stopped
FindDone(e, ok, found) ==
    /\ pc[e] = "find"
    /\ EvFrame
    /\ UNCHANGED event
    /\ IF ~ok
       THEN /\ UNCHANGED ctx
            /\ Except(e, "find_by_manus_task_id")
       ELSE /\ UNCHANGED raised
            /\ ctx' = [ctx EXCEPT ![e].local_task = found]
            /\ CASE event[e].event_type = "task_created" ->
                      IF found THEN Park(e, "update_created", calls[e])
                      ELSE Launch(e, get_task_id(event[e]), "task_created", "end")
                 [] event[e].event_type = "task_progress" ->
                      IF found THEN Park(e, "get_progress", calls[e])
                      ELSE Launch(e, get_task_id(event[e]), "task_progress", "end")
                 [] OTHER ->
                      IF found THEN Park(e, "get_stopped", calls[e])
                      ELSE StoppedDispatch(e, ctx'[e])

\* tracker.update(title, task_url, status="processing") in handle_task_created
UpdateCreatedDone(e, ok) ==
    /\ pc[e] = "update_created"
    /\ EvFrame
    /\ UNCHANGED <<event, ctx>>
    /\ IF ok
       THEN /\ UNCHANGED raised
            /\ Launch(e, get_task_id(event[e]), "task_created", "end")
       ELSE /\ Except(e, "update")

\* metadata a stored task may carry: no record, a PPT task, or a video task
\* at one of its steps
TaskKinds == {"missing", "ppt", "script_generation", "video_generation", "video_other"}

\* tracker.get(local_task["id"]) in handle_task_progress
GetProgressDone(e, ok, kind) ==
    /\ pc[e] = "get_progress"
    /\ EvFrame
    /\ UNCHANGED <<event, ctx>>
    /\ IF ok
       THEN /\ UNCHANGED raised
            /\ Launch(e, get_task_id(event[e]),
                      CASE kind = "script_generation" -> "script_generation_progress"
                        [] kind = "video_generation"  -> "video_generation_progress"
                        [] OTHER -> "task_progress",
                      "end")
       ELSE /\ Except(e, "get")

\* tracker.get(local_task["id"]) in handle_task_stopped
GetStoppedDone(e, ok, kind) ==
    /\ pc[e] = "get_stopped"
    /\ EvFrame
    /\ UNCHANGED event
    /\ IF ok
       THEN /\ UNCHANGED raised
            /\ ctx' = [ctx EXCEPT ![e].is_video_task =
                                     kind \in {"script_generation", "video_generation",
                                               "video_other"},
                                  ![e].task_step =
                                     IF kind \in {"script_generation", "video_generation"}
                                     THEN kind ELSE None]
            /\ StoppedDispatch(e, ctx'[e])
       ELSE /\ UNCHANGED ctx
            /\ Except(e, "get")

\* ppt_generator.download_completed_task(task_id); its failure is caught by
\* the `except Exception` around the download
DownloadDone(e, ok) ==
    /\ pc[e] = "download"
    /\ EvFrame
    /\ UNCHANGED <<event, ctx>>
    /\ IF ok
       THEN /\ UNCHANGED raised
            /\ Park(e, "get_updated", calls[e])
       ELSE /\ Raise(e, "download_completed_task")
            /\ Launch(e, get_task_id(event[e]), "task_failed", "end")

\* tracker.get(local_task["id"]) after the download, inside the same try
GetUpdatedDone(e, ok) ==
    /\ pc[e] = "get_updated"
    /\ EvFrame
    /\ UNCHANGED <<event, ctx>>
    /\ IF ok
       THEN /\ UNCHANGED raised
            /\ Launch(e, get_task_id(event[e]), "task_completed+download_url", "end")
       ELSE /\ Raise(e, "get")
            /\ Launch(e, get_task_id(event[e]), "task_failed", "end")

\* tracker.update(status="pending") when stop_reason is "ask"
UpdateAskDone(e, ok) ==
    /\ pc[e] = "update_ask"
    /\ EvFrame
    /\ UNCHANGED <<event, ctx>>
    /\ IF ok
       THEN /\ UNCHANGED raised
            /\ Launch(e, get_task_id(event[e]), "task_ask", "end")
       ELSE /\ Except(e, "update")

\* tracker.update(status="failed") when stop_reason is neither finish nor ask
UpdateStoppedDone(e, ok) ==
    /\ pc[e] = "update_stopped"
    /\ EvFrame
    /\ UNCHANGED <<event, ctx>>
    /\ IF ok
       THEN /\ UNCHANGED raised
            /\ Launch(e, get_task_id(event[e]), "task_failed", "end")
       ELSE /\ Except(e, "update")

\* video_service.handle_script_generation_complete: it returns the id of the
\* chained video task, or raises into the inner `except Exception`
ChainDone(e, ok, video_task_id) ==
    /\ pc[e] = "chain"
    /\ EvFrame
    /\ UNCHANGED event
    /\ IF ok
       THEN /\ UNCHANGED raised
            /\ ctx' = [ctx EXCEPT ![e].video_task_id = video_task_id]
            /\ Launch(e, get_task_id(event[e]), "script_generation_completed", "started")
       ELSE /\ Raise(e, "handle_script_generation_complete")
            /\ UNCHANGED ctx
            /\ Launch(e, get_task_id(event[e]), "script_generation_failed", "update")

\* video_service.handle_video_generation_complete
VideoDone(e, ok) ==
    /\ pc[e] = "video"
    /\ EvFrame
    /\ UNCHANGED <<event, ctx>>
    /\ IF ok
       THEN /\ UNCHANGED raised
            /\ Park(e, "update_completed", calls[e])
       ELSE /\ Raise(e, "handle_video_generation_complete")
            /\ Launch(e, get_task_id(event[e]), "video_generation_failed", "update")

\* tracker.update(status="completed"), inside the inner try of the
\* video_generation branch
UpdateCompletedDone(e, ok) ==
    /\ pc[e] = "update_completed"
    /\ EvFrame
    /\ UNCHANGED <<event, ctx>>
    /\ IF ok
       THEN /\ UNCHANGED raised
            /\ Launch(e, get_task_id(event[e]), "video_generation_completed", "end")
       ELSE /\ Raise(e, "update")
            /\ Launch(e, get_task_id(event[e]), "video_generation_failed", "update")

\* tracker.update(status="failed") in an inner except block; its failure
\* reaches the outer `except Exception` of handle_video_task_stopped
UpdateFailedDone(e, ok) ==
    /\ pc[e] = "update_failed"
    /\ EvFrame
    /\ UNCHANGED <<event, ctx>>
    /\ IF ok
       THEN /\ UNCHANGED raised
            /\ Park(e, "done", calls[e])
       ELSE /\ Raise(e, "update")
            /\ Launch(e, get_task_id(event[e]), "task_failed", "end")

TypeOK ==
    /\ DOMAIN active_connections \subseteq Clients
    /\ \A c \in DOMAIN active_connections : active_connections[c] \in Handlers
    /\ DOMAIN task_subscriptions \subseteq Tasks
    /\ \A t \in DOMAIN task_subscriptions : task_subscriptions[t] \subseteq Clients
    /\ DOMAIN client_tasks \subseteq Clients
    /\ \A c \in DOMAIN client_tasks : client_tasks[c] \subseteq Tasks
    /\ \A i \in 1..Len(lock) : lock[i] \in Procs
    /\ chan \in [Handlers -> {"none", "connecting", "open", "closed", "dead"}]
    /\ closeRequested \subseteq Handlers
    /\ heartbeat \in [Handlers -> {"none", "running", "exited", "cancelled"}]
    /\ \A h \in Handlers : \A i \in 1..Len(pending[h]) :
          pending[h][i] \in Procs /\ pc[pending[h][i]] = "send"
    /\ inputs \in 0..MaxInputs

Init ==
    /\ active_connections = EmptyDict
    /\ task_subscriptions = EmptyDict
    /\ client_tasks = EmptyDict
    /\ lock = <<>>
    /\ chan = [h \in Handlers |-> "none"]
    /\ closeRequested = {}
    /\ cid = [h \in Handlers |-> None]
    /\ pc = [p \in Procs |-> "init"]
    /\ heartbeat = [h \in Handlers |-> "none"]
    /\ snd = [p \in Procs |-> NoSend]
    /\ args = [p \in Procs |-> NoArgs]
    /\ sent = [h \in Handlers |-> <<>>]
    /\ pending = [h \in Handlers |-> <<>>]
    /\ inputs = 0
    /\ event = [e \in Events |-> NoPayload]
    /\ fanout = [e \in Events |-> NoFanout]
    /\ ctx = [e \in Events |-> NoCtx]
    /\ calls = [e \in Events |-> <<>>]
    /\ raised = [e \in Events |-> {}]

Next ==
    \/ \E h \in Handlers, c \in Clients : Open(h, c)
    \/ \E h \in Handlers : PeerDrop(h)
    \/ \E h \in Handlers : AcceptFail(h)
    \/ \E h \in Handlers : Accept(h)
    \/ \E h \in Handlers : Locked(h)
    \/ \E h \in Handlers : CloseDone(h)
    \/ \E h \in Handlers : SendOk(h)
    \/ \E h \in Handlers : SendFail(h)
    \/ \E h \in Handlers, raw_data \in RawMessages : Receive(h, raw_data)
    \/ \E h \in Handlers : Timeout(h)
    \/ \E h \in Handlers : ReceiveFail(h)
    \/ \E h \in Handlers : HeartbeatExit(h)

Spec == Init /\ [][Next]_vars

\* ------------------------------------------------------------------
\* The ingestion adapter at work: every handler h has connected as client
\* ClientIds[h], subscribed to some tasks and waits in its read loop.
RECURSIVE Acks(_)
Acks(S) ==
    IF S = {} THEN <<>>
    ELSE LET t == CHOOSE x \in S : \A y \in S : \E i, j \in 1..Len(TaskIds) :
                      TaskIds[i] = x /\ TaskIds[j] = y /\ i <= j
         IN <<Message("subscribed", t, NoEvent)>> \o Acks(S \ {t})

InitWebhook ==
    /\ cid = [h \in Handlers |-> ClientIds[h]]
    /\ active_connections = [c \in {ClientIds[h] : h \in Handlers} |->
                                CHOOSE h \in Handlers : ClientIds[h] = c]
    /\ \E subs \in {[h \in Handlers |-> {TaskIds[1]}]} :
          /\ client_tasks = [c \in DOMAIN active_connections |->
                                subs[active_connections[c]]]
          /\ task_subscriptions =
                [t \in UNION {subs[h] : h \in Handlers} |->
                    {ClientIds[h] : h \in {g \in Handlers : t \in subs[g]}}]
          /\ sent = [h \in Handlers |->
                        <<Message("connected", None, NoEvent)>> \o Acks(subs[h])]
          /\ pending = [h \in Handlers |-> <<>>]
    /\ lock = <<>>
    /\ chan = [h \in Handlers |-> "open"]
    /\ closeRequested = {}
    /\ pc = [p \in Procs |-> IF p \in Handlers THEN "recv" ELSE "init"]
    /\ heartbeat = [h \in Handlers |-> "running"]
    /\ snd = [p \in Procs |-> NoSend]
    /\ args = [p \in Procs |-> NoArgs]
    /\ inputs = 0
    /\ event = [e \in Events |-> NoPayload]
    /\ fanout = [e \in Events |-> NoFanout]
    /\ ctx = [e \in Events |-> NoCtx]
    /\ calls = [e \in Events |-> <<>>]
    /\ raised = [e \in Events |-> {}]

\* a callback that arrives when the handlers of the earlier ones are over
EventReceiveNext(e, payload) ==
    /\ \A d \in Events : d < e => pc[d] = "done"
    /\ EventReceive(e, payload)

NextWebhook ==
    \/ \E h \in Handlers : PeerDrop(h)
    \/ \E h \in Handlers : ReceiveFail(h)
    \/ \E e \in Events : SendOk(e)
    \/ \E e \in Events : SendFail(e)
    \/ \E e \in Events, payload \in Payloads : EventReceiveNext(e, payload)
    \/ \E e \in Events, ok \in Outcomes : AddEventDone(e, ok)
    \/ \E e \in Events, ok \in Outcomes, found \in BOOLEAN : FindDone(e, ok, found)
    \/ \E e \in Events, ok \in Outcomes : UpdateCreatedDone(e, ok)
    \/ \E e \in Events, ok \in Outcomes, kind \in TaskKinds : GetProgressDone(e, ok, kind)
    \/ \E e \in Events, ok \in Outcomes, kind \in TaskKinds : GetStoppedDone(e, ok, kind)
    \/ \E e \in Events, ok \in Outcomes : DownloadDone(e, ok)
    \/ \E e \in Events, ok \in Outcomes : GetUpdatedDone(e, ok)
    \/ \E e \in Events, ok \in Outcomes : UpdateAskDone(e, ok)
    \/ \E e \in Events, ok \in Outcomes : UpdateStoppedDone(e, ok)
    \/ \E e \in Events, ok \in Outcomes, t \in Tasks : ChainDone(e, ok, t)
    \/ \E e \in Events, ok \in Outcomes : VideoDone(e, ok)
    \/ \E e \in Events, ok \in Outcomes : UpdateCompletedDone(e, ok)
    \/ \E e \in Events, ok \in Outcomes : UpdateFailedDone(e, ok)

SpecWebhook == InitWebhook /\ [][NextWebhook]_vars

\* ------------------------------------------------------------------
\* Callbacks whose background handlers run concurrently: each request is
\* served by its own asyncio task, and its BackgroundTasks run in that task
\* once the response is out.
ConcurrentPayloads ==
    {p \in Payloads : /\ p.event_type \in {"task_created", "task_progress"}
                      /\ get_task_id(p) # None}

\* TaskTrackerService runs every method under one asyncio.Lock, which is
\* FIFO: calls of add_webhook_event complete in the order they were made
AddEventInOrder(e, ok) ==
    /\ \A d \in Events : d < e => pc[d] # "add_event"
    /\ AddEventDone(e, ok)

NextConcurrent ==
    \/ \E h \in Handlers : PeerDrop(h)
    \/ \E e \in Events : SendOk(e)
    \/ \E e \in Events : SendFail(e)
    \/ \E e \in Events, payload \in ConcurrentPayloads : EventReceive(e, payload)
    \/ \E e \in Events, ok \in Outcomes : AddEventInOrder(e, ok)
    \/ \E e \in Events, ok \in Outcomes, found \in BOOLEAN : FindDone(e, ok, found)
    \/ \E e \in Events, ok \in Outcomes : UpdateCreatedDone(e, ok)
    \/ \E e \in Events, ok \in Outcomes, kind \in TaskKinds : GetProgressDone(e, ok, kind)

SpecConcurrent == InitWebhook /\ [][NextConcurrent]_vars

\* ------------------------------------------------------------------
\* Fan-outs while subscriptions change: the connected clients send
\* subscribe and unsubscribe commands while the background handler of one
\* callback pushes to the subscribers.
NextFanout ==
    \/ \E h \in Handlers : PeerDrop(h)
    \/ \E h \in Handlers : ReceiveFail(h)
    \/ \E h \in Handlers, raw_data \in RawMessages :
          /\ raw_data.action \in {"subscribe", "unsubscribe"}
          /\ raw_data.task_id \in Tasks
          /\ Receive(h, raw_data)
    \/ \E p \in Handlers \cup Events : SendOk(p)
    \/ \E p \in Handlers \cup Events : SendFail(p)
    \/ \E payload \in ConcurrentPayloads : EventReceive(NumHandlers + 1, payload)
    \/ \E e \in Events, ok \in Outcomes : AddEventDone(e, ok)
    \/ \E e \in Events, ok \in Outcomes, found \in BOOLEAN : FindDone(e, ok, found)
    \/ \E e \in Events, ok \in Outcomes : UpdateCreatedDone(e, ok)
    \/ \E e \in Events, ok \in Outcomes, kind \in TaskKinds : GetProgressDone(e, ok, kind)

SpecFanout == InitWebhook /\ [][NextFanout]_vars

\* ------------------------------------------------------------------
\* The replay of a recorded video task: replay_video_task has subscribed
\* the client to the local task and to the script task, and
\* replay_webhook_events pushes the recorded events one after the other.
InitReplay ==
    /\ cid = [h \in Handlers |-> ClientIds[h]]
    /\ active_connections = [c \in {ClientIds[h] : h \in Handlers} |->
                                CHOOSE h \in Handlers : ClientIds[h] = c]
    /\ \E subs \in {[h \in Handlers |-> {replay_local_task_id, replay_script_task_id}]} :
          /\ client_tasks = [c \in DOMAIN active_connections |->
                                subs[active_connections[c]]]
          /\ task_subscriptions =
                [t \in UNION {subs[h] : h \in Handlers} |->
                    {ClientIds[h] : h \in {g \in Handlers : t \in subs[g]}}]
          /\ sent = [h \in Handlers |->
                        <<Message("connected", None, NoEvent)>> \o Acks(subs[h])]
          /\ pending = [h \in Handlers |-> <<>>]
    /\ lock = <<>>
    /\ chan = [h \in Handlers |-> "open"]
    /\ closeRequested = {}
    /\ pc = [p \in Procs |-> IF p \in Handlers THEN "recv" ELSE "init"]
    /\ heartbeat = [h \in Handlers |-> "running"]
    /\ snd = [p \in Procs |-> NoSend]
    /\ args = [p \in Procs |-> NoArgs]
    /\ inputs = 0
    /\ event = [e \in Events |-> NoPayload]
    /\ fanout = [e \in Events |-> NoFanout]
    /\ ctx = [e \in Events |-> NoCtx]
    /\ calls = [e \in Events |-> <<>>]
    /\ raised = [e \in Events |-> {}]

\* replay_webhook_events wakes from its sleep and handles the next recorded
\* event: the converted message goes to the subscribers of its task_id, then
\* to those of replay_local_task_id
ReplayEvent(e, event_type, task_id) ==
    /\ pc[e] = "init"
    /\ \A d \in Events : d < e => pc[d] = "done"
    /\ EvFrame
    /\ event' = [event EXCEPT ![e] =
                    ManusWebhookPayload(event_type, Detail(TRUE, task_id, None),
                                        NoDetail, None)]
    /\ UNCHANGED <<ctx, raised>>
    /\ IF convert_webhook_to_websocket_message(event_type, task_id) = None
       THEN Park(e, "done", calls[e])
       ELSE Launch(e, task_id,
                   convert_webhook_to_websocket_message(event_type, task_id), "local")

NextReplay ==
    \/ \E h \in Handlers : PeerDrop(h)
    \/ \E h \in Handlers : ReceiveFail(h)
    \/ \E e \in Events : SendOk(e)
    \/ \E e \in Events : SendFail(e)
    \/ \E e \in Events, event_type \in {"task_created", "task_progress", "task_stopped"},
          task_id \in {replay_script_task_id, replay_video_task_id} :
            ReplayEvent(e, event_type, task_id)

SpecReplay == InitReplay /\ [][NextReplay]_vars

\* ------------------------------------------------------------------
\* The task-creation endpoint create_task_webhook (tasks_v2.create_task has
\* the same body): a request that names a client_id subscribes that client
\* to the local task and, once the Manus API has created the task, to the
\* Manus task; a failure after the local task exists is pushed to the client.
create_local_task_id == TaskIds[1]     \* local_task.id
create_manus_task_id == TaskIds[2]     \* manus_result.get("task_id")

\* the message without a timestamp member
Untimed(message) == [message EXCEPT !.timestamp = FALSE]

CreateArgs(client_id) ==
    [op |-> "create", client |-> client_id, task_id |-> None, ret |-> None]

\* the request suspends in its next await, or is over (label "done")
Await(r, label) ==
    /\ pc'   = [pc EXCEPT ![r] = label]
    /\ args' = [args EXCEPT ![r] = IF label = "done" THEN NoArgs ELSE @]
    /\ UNCHANGED <<regVars, lock, closeRequested, heartbeat, snd, sent, pending, evVars>>

\* `if request.client_id and manager.is_connected(request.client_id):
\*      await manager.subscribe_task(request.client_id, task_id)`
SubscribeIfConnected(r, task_id, ret, label) ==
    IF args[r].client # None /\ is_connected(args[r].client)
    THEN Call(r, [op |-> "subscribe", client |-> args[r].client, task_id |-> task_id,
                  ret |-> ret])
    ELSE Await(r, label)

\* POST /api/ppt/webhook arrives: the endpoint raises HTTPException(400)
\* when webhook mode is off, otherwise it awaits tracker.create
CreateTaskWebhook(r, client_id, webhook_enabled) ==
    /\ pc[r] = "init"
    /\ pc'   = [pc EXCEPT ![r] = IF webhook_enabled THEN "tracker_create" ELSE "done"]
    /\ args' = [args EXCEPT ![r] = IF webhook_enabled THEN CreateArgs(client_id) ELSE NoArgs]
    /\ UNCHANGED <<regVars, lock, chan, closeRequested, cid, heartbeat, snd, sent,
                   pending, inputs, evVars>>

\* tracker.create returns the local task, or raises out of the endpoint
TrackerCreateDone(r, ok) ==
    /\ pc[r] = "tracker_create"
    /\ UNCHANGED <<chan, cid, inputs>>
    /\ Await(r, IF ok THEN "update_processing" ELSE "done")

\* tracker.update(status=processing) returns, and the client is subscribed
\* to the local task id, or raises out of the endpoint
UpdateProcessingDone(r, ok) ==
    /\ pc[r] = "update_processing"
    /\ UNCHANGED <<chan, cid, inputs>>
    /\ IF ok
       THEN SubscribeIfConnected(r, create_local_task_id, "manus", "manus_create")
       ELSE Await(r, "done")

\* task_manager.create_task returns the Manus task, or raises into the
\* endpoint's `except Exception`
ManusCreateDone(r, ok) ==
    /\ pc[r] = "manus_create"
    /\ UNCHANGED <<chan, cid, inputs>>
    /\ Await(r, IF ok THEN "update_manus" ELSE "update_failed")

\* tracker.update(manus_task_id=...) returns, and the client is subscribed
\* to the Manus task id, or raises into the `except Exception`
UpdateManusDone(r, ok) ==
    /\ pc[r] = "update_manus"
    /\ UNCHANGED <<chan, cid, inputs>>
    /\ IF ok
       THEN SubscribeIfConnected(r, create_manus_task_id, "close", "client_close")
       ELSE Await(r, "update_failed")

\* client.close() returns and the endpoint answers, or raises into the
\* `except Exception`
ClientCloseDone(r, ok) ==
    /\ pc[r] = "client_close"
    /\ UNCHANGED <<chan, cid, inputs>>
    /\ Await(r, IF ok THEN "done" ELSE "update_failed")

\* the `except Exception` branch: tracker.update(status=failed) returns, the
\* failure is pushed to request.client_id and HTTPException(500) is raised;
\* or the update raises out of the endpoint
CreateFailedDone(r, ok) ==
    /\ pc[r] = "update_failed"
    /\ UNCHANGED <<chan, cid, inputs>>
    /\ IF ok /\ args[r].client # None
       THEN DirectSend(r, args[r].client,
                       Untimed(Message("task_failed", create_local_task_id, NoEvent)),
                       "raise")
       ELSE Await(r, "done")

\* the clients are connected, each on its own channel, and hold no
\* subscription
InitCreate ==
    /\ cid = [h \in Handlers |-> ClientIds[h]]
    /\ active_connections = [c \in {ClientIds[h] : h \in Handlers} |->
                                CHOOSE h \in Handlers : ClientIds[h] = c]
    /\ client_tasks = [c \in DOMAIN active_connections |-> {}]
    /\ task_subscriptions = EmptyDict
    /\ sent = [h \in Handlers |-> <<Message("connected", None, NoEvent)>>]
    /\ pending = [h \in Handlers |-> <<>>]
    /\ lock = <<>>
    /\ chan = [h \in Handlers |-> "open"]
    /\ closeRequested = {}
    /\ pc = [p \in Procs |-> IF p \in Handlers THEN "recv" ELSE "init"]
    /\ heartbeat = [h \in Handlers |-> "running"]
    /\ snd = [p \in Procs |-> NoSend]
    /\ args = [p \in Procs |-> NoArgs]
    /\ inputs = 0
    /\ event = [e \in Events |-> NoPayload]
    /\ fanout = [e \in Events |-> NoFanout]
    /\ ctx = [e \in Events |-> NoCtx]
    /\ calls = [e \in Events |-> <<>>]
    /\ raised = [e \in Events |-> {}]

NextCreate ==
    \/ \E h \in Handlers : PeerDrop(h)
    \/ \E h \in Handlers : ReceiveFail(h)
    \/ \E r \in Requests : SendOk(r)
    \/ \E r \in Requests : SendFail(r)
    \/ \E r \in Requests, c \in Clients \cup {None}, enabled \in BOOLEAN :
          CreateTaskWebhook(r, c, enabled)
    \/ \E r \in Requests, ok \in Outcomes : TrackerCreateDone(r, ok)
    \/ \E r \in Requests, ok \in Outcomes : UpdateProcessingDone(r, ok)
    \/ \E r \in Requests, ok \in Outcomes : ManusCreateDone(r, ok)
    \/ \E r \in Requests, ok \in Outcomes : UpdateManusDone(r, ok)
    \/ \E r \in Requests, ok \in Outcomes : ClientCloseDone(r, ok)
    \/ \E r \in Requests, ok \in Outcomes : CreateFailedDone(r, ok)

SpecCreate == InitCreate /\ [][NextCreate]_vars

\* ------------------------------------------------------------------
\* A connection evicted while its channel is open.  An endpoint whose
\* channel was replaced by a reconnect under the same client_id runs
\* disconnect(client_id) in its finally block and so removes the entry of
\* the replacing connection (a state Spec reaches); that endpoint is over and
\* takes no further part.  LeftOpen is the replacing connection: accepted,
\* acknowledged, in its read loop with its heartbeat running, and no longer in
\* the table.  The other endpoints have not started.
LeftOpen == CHOOSE h \in Handlers : \A g \in Handlers : h <= g

InitEvicted ==
    /\ active_connections = EmptyDict
    /\ task_subscriptions = EmptyDict
    /\ client_tasks = EmptyDict
    /\ lock = <<>>
    /\ chan = [h \in Handlers |-> IF h = LeftOpen THEN "open" ELSE "none"]
    /\ closeRequested = {}
    /\ cid = [h \in Handlers |-> IF h = LeftOpen THEN ClientIds[h] ELSE None]
    /\ pc = [p \in Procs |-> IF p = LeftOpen THEN "recv" ELSE "init"]
    /\ heartbeat = [h \in Handlers |-> IF h = LeftOpen THEN "running" ELSE "none"]
    /\ snd = [p \in Procs |-> NoSend]
    /\ args = [p \in Procs |-> NoArgs]
    /\ sent = [h \in Handlers |->
                  IF h = LeftOpen THEN <<Message("connected", None, NoEvent)>> ELSE <<>>]
    /\ pending = [h \in Handlers |-> <<>>]
    /\ inputs = 0
    /\ event = [e \in Events |-> NoPayload]
    /\ fanout = [e \in Events |-> NoFanout]
    /\ ctx = [e \in Events |-> NoCtx]
    /\ calls = [e \in Events |-> <<>>]
    /\ raised = [e \in Events |-> {}]

\* the steps of the endpoints from there on
NextEvicted ==
    \/ \E h \in Handlers, c \in Clients : Open(h, c)
    \/ \E h \in Handlers : PeerDrop(h)
    \/ \E h \in Handlers : AcceptFail(h)
    \/ \E h \in Handlers : Accept(h)
    \/ \E h \in Handlers : SendOk(h)
    \/ \E h \in Handlers : SendFail(h)
    \/ \E h \in Handlers, raw_data \in RawMessages : Receive(h, raw_data)
    \/ \E h \in Handlers : Timeout(h)
    \/ \E h \in Handlers : ReceiveFail(h)
    \/ \E h \in Handlers : HeartbeatExit(h)

\* The event loop runs every coroutine that is ready: a handshake, a send or
\* a read that has completed or failed is delivered, and the sleep of a
\* heartbeat ends.  Nothing obliges a peer to open, to speak or to go away.
FairEvicted ==
    \A h \in Handlers :
        /\ WF_vars(AcceptFail(h)) /\ WF_vars(Accept(h))
        /\ WF_vars(SendOk(h)) /\ WF_vars(SendFail(h))
        /\ WF_vars(ReceiveFail(h))
        /\ WF_vars(HeartbeatExit(h))

SpecEvicted == InitEvicted /\ [][NextEvicted]_vars /\ FairEvicted

\* ------------------------------------------------------------------
\* The registry by itself: connect, disconnect, subscribe_task and
\* unsubscribe_task called one after the other, each running its critical
\* section on the three tables.  args of Caller holds the call made last.
Caller == CHOOSE h \in Handlers : \A g \in Handlers : h <= g

\* identifiers no connect and no subscribe_task call is made with
StrangerClient == ClientIds[NumClients + 1]
StrangerTask   == TaskIds[NumTasks + 1]

RegistryFrame(a) ==
    /\ args' = [args EXCEPT ![Caller] = a]
    /\ UNCHANGED <<lock, chan, closeRequested, cid, pc, heartbeat, snd, sent, pending,
                   inputs, evVars>>

ConnectCall(client_id, websocket) ==
    /\ Register(client_id, websocket)
    /\ RegistryFrame(Op("connect", client_id, None, "end"))

DisconnectCall(client_id) ==
    /\ DisconnectCS(client_id)
    /\ RegistryFrame(Op("disconnect", client_id, None, "end"))

SubscribeCall(client_id, task_id) ==
    /\ SubscribeCS(client_id, task_id)
    /\ RegistryFrame(Op("subscribe", client_id, task_id, "end"))

UnsubscribeCall(client_id, task_id) ==
    /\ UnsubscribeCS(client_id, task_id)
    /\ RegistryFrame(Op("unsubscribe", client_id, task_id, "end"))

NextRegistry ==
    \/ \E c \in Clients, h \in Handlers : ConnectCall(c, h)
    \/ \E c \in Clients \cup {StrangerClient} : DisconnectCall(c)
    \/ \E c \in Clients \cup {StrangerClient}, t \in Tasks : SubscribeCall(c, t)
    \/ \E c \in Clients \cup {StrangerClient}, t \in Tasks \cup {StrangerTask} :
          UnsubscribeCall(c, t)

SpecRegistry == Init /\ [][NextRegistry]_vars

\* ------------------------------------------------------------------
\* The retry helper (app/utils/retry.py).  A worker is a coroutine that runs
\* retry_async(func, config=config); args of the worker holds the locals of
\* the call, with the number of calls of func made so far.
MaxRetries == 2       \* largest RetryConfig.max_retries

ErrorTypes == {"ManusAPIException", "ConnectionError", "TimeoutError", "ValueError"}

\* the detail of an exception: a text is the sequence of its characters,
\* and None is kept apart from the empty string
NoneDetail == <<None>>
Details == {NoneDetail, <<>>, <<"5", "0", "3">>, <<"4", "0", "4">>,
            <<"1", "5", "0", "0", "0">>}

Errors ==
    {[type |-> "ManusAPIException", detail |-> d] : d \in Details}
    \cup {[type |-> t, detail |-> NoneDetail] : t \in ErrorTypes \ {"ManusAPIException"}}

\* RetryConfig: max_retries, retryable_exceptions and retryable_status_codes
\* (the delays have no part in the control flow)
RetryConfigs ==
    {[max_retries |-> n, retryable_exceptions |-> X, retryable_status_codes |-> C] :
        n \in (0 - 1)..MaxRetries,
        X \in {{"ManusAPIException", "ConnectionError", "TimeoutError"},
               {"ConnectionError"}},
        C \in {{500, 502, 503, 504, 429}, {503}}}

\* str(n) of a natural number, as the sequence of its characters
RECURSIVE str(_)
str(n) ==
    LET digit == <<"0", "1", "2", "3", "4", "5", "6", "7", "8", "9">>[(n % 10) + 1]
    IN  IF n < 10 THEN <<digit>> ELSE str(n \div 10) \o <<digit>>

\* Python's `sub in text` on strings
str_in(sub, text) ==
    \E i \in 0..(Len(text) - Len(sub)) : SubSeq(text, i + 1, i + Len(sub)) = sub

is_retryable_error(error, config) ==
    IF error.type \in config.retryable_exceptions
    THEN IF error.type = "ManusAPIException"
         THEN IF /\ error.detail \notin {NoneDetail, <<>>}
                 /\ \E status_code \in config.retryable_status_codes :
                       str_in(str(status_code), error.detail)
              THEN TRUE
              ELSE TRUE
         ELSE TRUE
    ELSE FALSE

WorkerFrame ==
    UNCHANGED <<regVars, lock, chan, closeRequested, cid, heartbeat, snd, sent,
                pending, inputs, evVars>>

\* worker w moves to label with the locals in frame
Resume(w, label, frame) ==
    /\ pc'   = [pc EXCEPT ![w] = label]
    /\ args' = [args EXCEPT ![w] = frame]
    /\ WorkerFrame

\* retry_async is called: with max_retries + 1 > 0 the first iteration calls
\* func at once; with an empty range the loop is skipped and the function
\* raises RuntimeError
RetryAsync(w, config) ==
    /\ pc[w] = "init"
    /\ IF config.max_retries + 1 > 0
       THEN Resume(w, "func", [op |-> "retry_async", config |-> config, attempt |-> 0,
                               last_error |-> None, func_calls |-> 1, outcome |-> None])
       ELSE Resume(w, "raised", [op |-> "retry_async", config |-> config, attempt |-> 0,
                                 last_error |-> None, func_calls |-> 0,
                                 outcome |-> [type |-> "RuntimeError", detail |-> NoneDetail]])

\* func returns: retry_async returns its result
FuncReturns(w) ==
    /\ pc[w] = "func"
    /\ Resume(w, "returned", [args[w] EXCEPT !.outcome = "result"])

\* (mutant) retry_async going on to one more attempt after the last one
FuncRaises_OneMore(w, error) ==
    /\ pc[w] = "func"
    /\ LET frame == [args[w] EXCEPT !.last_error = error] IN
          IF ~is_retryable_error(error, frame.config)
          THEN Resume(w, "raised", [frame EXCEPT !.outcome = error])
          ELSE IF frame.attempt <= frame.config.max_retries
          THEN Resume(w, "sleep", [frame EXCEPT !.attempt = @ + 1])
          ELSE Resume(w, "raised", [frame EXCEPT !.outcome = error])

\* func raises error: re-raised if it is not retryable or this was the last
\* attempt, otherwise the next iteration sleeps before it calls func again
FuncRaises(w, error) ==
    /\ pc[w] = "func"
    /\ LET frame == [args[w] EXCEPT !.last_error = error] IN
          IF ~is_retryable_error(error, frame.config)
          THEN Resume(w, "raised", [frame EXCEPT !.outcome = error])
          ELSE IF frame.attempt < frame.config.max_retries
          THEN Resume(w, "sleep", [frame EXCEPT !.attempt = @ + 1])
          ELSE Resume(w, "raised", [frame EXCEPT !.outcome = error])

\* asyncio.sleep(delay) is over: func is called again
RetrySleepDone(w) ==
    /\ pc[w] = "sleep"
    /\ args[w].op = "retry_async"
    /\ Resume(w, "func", [args[w] EXCEPT !.func_calls = @ + 1])

NextRetry ==
    \/ \E w \in Workers, config \in RetryConfigs : RetryAsync(w, config)
    \/ \E w \in Workers : FuncReturns(w)
    \/ \E w \in Workers, error \in Errors : FuncRaises(w, error)
    \/ \E w \in Workers : RetrySleepDone(w)

SpecRetry == Init /\ [][NextRetry]_vars

\* ------------------------------------------------------------------
\* Polling a task of the external service (app/manus_client/tasks.py).  The
\* worker runs wait_for_completion; args of the worker holds its locals, the
\* loop clock (time since start_time), the statuses polled so far and the
\* statuses on_status_change was called with.
MaxTimeout == 2       \* largest timeout, in units of poll_interval

TaskStatuses == {"pending", "running", "completed", "failed", None}

\* the top of the `while True` loop, up to `await self.get_task`
LoopTop(w, frame) ==
    IF frame.clock > frame.timeout
    THEN Resume(w, "raised", [frame EXCEPT !.outcome = "TimeoutError"])
    ELSE Resume(w, "get_task", [frame EXCEPT !.elapsed = frame.clock])

\* the loop body after the status-change block
AfterStatus(w, frame) ==
    IF frame.status = "completed"
    THEN IF frame.convert
         THEN Resume(w, "get_converted", frame)
         ELSE Resume(w, "returned", [frame EXCEPT !.outcome = "task"])
    ELSE IF frame.status = "failed"
    THEN Resume(w, "raised", [frame EXCEPT !.outcome = "RuntimeError"])
    ELSE Resume(w, "sleep", frame)

WaitForCompletion(w, timeout, convert, on_status_change) ==
    /\ pc[w] = "init"
    /\ LoopTop(w, [op |-> "wait_for_completion", timeout |-> timeout,
                   convert |-> convert, on_status_change |-> on_status_change,
                   clock |-> 0, elapsed |-> 0, last_status |-> None, status |-> None,
                   polled |-> <<>>, notified |-> <<>>, warnings |-> 0,
                   outcome |-> None])

\* get_task(task_id, convert=False) returns a task with this status, after
\* dt units of time
GetTaskDone(w, status, dt) ==
    /\ pc[w] = "get_task"
    /\ LET frame == [args[w] EXCEPT !.status = status, !.clock = @ + dt,
                                    !.polled = Append(@, status)]
       IN  IF status # frame.last_status
           THEN IF frame.on_status_change
                THEN Resume(w, "callback", [frame EXCEPT !.notified = Append(@, status)])
                ELSE AfterStatus(w, [frame EXCEPT !.last_status = status])
           ELSE AfterStatus(w, frame)

\* get_task raises (AsyncManusClient._request raises ManusAPIException)
GetTaskFails(w) ==
    /\ pc[w] \in {"get_task", "get_converted"}
    /\ Resume(w, "raised", [args[w] EXCEPT !.outcome = "ManusAPIException"])

\* on_status_change returns, or raises an Exception that is logged
CallbackDone(w, ok) ==
    /\ pc[w] = "callback"
    /\ AfterStatus(w, [args[w] EXCEPT !.last_status = args[w].status,
                                      !.warnings = IF ok THEN @ ELSE @ + 1])

\* get_task(task_id, convert=True) returns: its task is returned
ConvertedDone(w) ==
    /\ pc[w] = "get_converted"
    /\ Resume(w, "returned", [args[w] EXCEPT !.outcome = "task"])

\* asyncio.sleep(poll_interval) is over
PollSleepDone(w) ==
    /\ pc[w] = "sleep"
    /\ args[w].op = "wait_for_completion"
    /\ LoopTop(w, [args[w] EXCEPT !.clock = @ + 1])

NextPoll ==
    \/ \E w \in Workers, timeout \in 1..MaxTimeout, convert, on_status_change \in BOOLEAN :
          WaitForCompletion(w, timeout, convert, on_status_change)
    \/ \E w \in Workers, status \in TaskStatuses, dt \in {0, 1} : GetTaskDone(w, status, dt)
    \/ \E w \in Workers : GetTaskFails(w)
    \/ \E w \in Workers, ok \in Outcomes : CallbackDone(w, ok)
    \/ \E w \in Workers : ConvertedDone(w)
    \/ \E w \in Workers : PollSleepDone(w)

SpecPoll == Init /\ [][NextPoll]_vars

\* ===================================================================
\* Properties of the ingestion adapter (SpecWebhook, SpecConcurrent)
\* ===================================================================

\* the pushes delivered on channel h that were produced for webhook events
\* about task_id, as the ids of those events, in delivery order
RECURSIVE EventPushes(_, _)
EventPushes(log, task_id) ==
    IF log = <<>> THEN <<>>
    ELSE IF Head(log).event_id # NoEvent /\ Head(log).task_id = task_id
         THEN <<CHOOSE e \in Head(log).event_id : TRUE>> \o EventPushes(Tail(log), task_id)
         ELSE EventPushes(Tail(log), task_id)

\* C4: events E1 then E2 for the same task, received in that order and
\* handled concurrently: a client that stays subscribed receives every push
\* produced for E1 before any push produced for E2.
C4_SameTaskInReceiptOrder ==
    \A h \in Handlers : \A t \in DOMAIN task_subscriptions :
        (cid[h] \in task_subscriptions[t] /\ is_connected(cid[h])
            /\ active_connections[cid[h]] = h)
        => LET ids == EventPushes(sent[h], t)
           IN \A i, j \in 1..Len(ids) : i < j => ids[i] <= ids[j]

\* an accepted event whose task_id resolves
Accepted(e) == pc[e] # "init" /\ get_task_id(event[e]) # None

\* C8: for every accepted event the adapter calls
\* send_to_task_subscribers(task_id, normalized message), whether or not the
\* task has subscribers and whether or not recording the event succeeded:
\* when the handler is over, the call has been made.
C8_ForwardedUnconditionally ==
    \A e \in Events :
        (Accepted(e) /\ pc[e] = "done")
            => \E i \in 1..Len(calls[e]) :
                  /\ calls[e][i].type = "webhook_event"
                  /\ calls[e][i].task_id = get_task_id(event[e])

FailedTypes == {"task_failed", "script_generation_failed", "video_generation_failed"}
SideEffects == {"find_by_manus_task_id", "get", "update", "download_completed_task",
                "handle_script_generation_complete", "handle_video_generation_complete"}

\* C9: whenever a side effect of processing an event raises (tracker lookup
\* or update, download, chaining), the exception is caught and the task's
\* subscribers are sent a push of a failed type: when the handler is over,
\* a fan-out of a failed type has been made for the task.
C9_SideEffectFailureReported ==
    \A e \in Events :
        (pc[e] = "done" /\ raised[e] \cap SideEffects # {})
            => \E i \in 1..Len(calls[e]) :
                  /\ calls[e][i].type \in FailedTypes
                  /\ calls[e][i].task_id = get_task_id(event[e])

\* ===================================================================
\* Properties of the registry and the connection endpoint (Spec)
\* ===================================================================

\* h is inside manager.connect, before the registration
InConnect(h) ==
    \/ pc[h] \in {"accept", "close"}
    \/ pc[h] = "lock" /\ args[h].op = "connect"

\* the endpoint of h is in its read loop (or in a call made from it)
InReadLoop(h) ==
    \/ pc[h] = "recv"
    \/ pc[h] = "send" /\ snd[h].ret = "recv"
    \/ pc[h] = "lock" /\ args[h].op # "connect" /\ args[h].ret = "recv"

\* connect() has registered h and h has not begun its cleanup
Established(h) ==
    \/ InReadLoop(h)
    \/ pc[h] = "send" /\ snd[h].ret = "connected"
    \/ pc[h] = "lock" /\ args[h].op = "disconnect" /\ args[h].ret = "connected"

\* C1: every client_id in a task's subscriber set has an entry in the
\* connection table, in every reachable state (reconnects included).
C1_SubscribersAreConnected ==
    \A t \in DOMAIN task_subscriptions :
        task_subscriptions[t] \subseteq DOMAIN active_connections

\* C2: a connection that replaced an older one under the same client_id
\* stays registered until it disconnects itself or a send on its own
\* channel fails: while its channel is open, it has not been replaced in
\* turn and its endpoint has not begun its cleanup, the table maps its
\* client_id to it.
C2_ReplacementStaysRegistered ==
    \A h \in Handlers :
        (/\ \E old \in closeRequested : old # h /\ cid[old] = cid[h]
         /\ Established(h) /\ chan[h] = "open" /\ h \notin closeRequested)
            => (is_connected(cid[h]) /\ active_connections[cid[h]] = h)

\* C3: the table holds one channel per client_id, and the step in which a
\* Connect registers its channel leaves the table mapping the client_id to
\* that channel, a close having been requested on the channel it replaced
\* (whether or not that close succeeded).
C3_LastConnectWins ==
    [][\A h \in Handlers :
          (InConnect(h) /\ pc'[h] \notin {"accept", "close", "lock", "done"})
              => /\ cid[h] \in DOMAIN active_connections'
                 /\ active_connections'[cid[h]] = h
                 /\ Cardinality({g \in Handlers :
                        \E c \in DOMAIN active_connections' :
                            c = cid[h] /\ active_connections'[c] = g}) = 1
                 /\ (cid[h] \in DOMAIN active_connections
                        => active_connections[cid[h]] \in closeRequested')]_vars

\* C3 witness: a channel was replaced although closing it failed
C3_Witness ==
    \E h \in Handlers, old \in closeRequested :
        /\ cid[old] = cid[h] /\ old # h
        /\ is_connected(cid[h]) /\ active_connections[cid[h]] = h
        /\ chan[old] = "dead"

\* C5: after Subscribe(client, task) followed by Disconnect(client), no
\* subscriber set contains the client (and a task whose last subscriber it
\* was has no entry): the step that removes a client from the connection
\* table leaves it in no subscriber set.
C5_DisconnectPrunes ==
    [][\A c \in Clients :
          (c \in DOMAIN active_connections /\ c \notin DOMAIN active_connections')
              => /\ \A t \in DOMAIN task_subscriptions' : c \notin task_subscriptions'[t]
                 /\ \A t \in DOMAIN task_subscriptions' : task_subscriptions'[t] # {}]_vars

\* a command that is not parseable as the expected structure
Malformed(raw_data) == raw_data.json # "object"

\* C6: a command that is not valid JSON, or is JSON but not an object, is
\* answered with an "error" push to the sender, and the connection stays
\* open and registered (the read loop goes on, Disconnect is not invoked).
C6_MalformedAnswered ==
    [][\A h \in Handlers, raw_data \in RawMessages :
          (/\ Malformed(raw_data)
           /\ is_connected(cid[h]) /\ active_connections[cid[h]] = h
           /\ Receive(h, raw_data))
              => /\ pc'[h] = "send"
                 /\ snd'[h].msg.type = "error" /\ snd'[h].ws = h
                 /\ is_connected(cid[h])'
                 /\ heartbeat'[h] = heartbeat[h]]_vars

\* C7: no channel operation (accept, close, send) is in progress while the
\* registry lock is held.
C7_NoIOUnderLock ==
    \A p \in Procs :
        (lock # <<>> /\ Head(lock) = p) => pc[p] \notin {"accept", "close", "send"}

\* C10: the read loop and the heartbeat of a connection end as a unit: once
\* the read loop is over the heartbeat is not running, and once the
\* heartbeat has exited the read loop is not running either.
C10_BundleEndsAsUnit ==
    \A h \in Handlers :
        /\ pc[h] = "done" => heartbeat[h] # "running"
        /\ heartbeat[h] = "exited" => ~InReadLoop(h)

\* ===================================================================
\* Properties of send_to_client and send_to_task_subscribers
\* ===================================================================

\* the step in which a send_to_client call of handler p for client c, whose
\* send_json raised, returns False after its disconnect(c)
FailedSendReturns(p, c) ==
    /\ pc'[p] = "recv"
    /\ \/ /\ pc[p] = "send" /\ snd[p].client = c
          /\ Head(pending[snd[p].ws]) = p /\ chan[snd[p].ws] # "open"
       \/ /\ pc[p] = "lock" /\ args[p].op = "disconnect"
          /\ args[p].ret # "done" /\ args[p].client = c

\* C11: send_to_client does not raise; for a client without a connection it
\* returns False and changes nothing; when send_json fails it runs
\* disconnect(client_id) before returning False, so that at its return the
\* client is in neither the connection table nor any subscriber set.
C11_FailedSendDisconnects ==
    [][/\ \A h \in Handlers, c \in Clients :
             FailedSendReturns(h, c)
                => /\ c \notin DOMAIN active_connections'
                   /\ \A t \in DOMAIN task_subscriptions' : c \notin task_subscriptions'[t]
       /\ \A h \in Handlers :
             (Timeout(h) /\ ~is_connected(cid[h]))
                => UNCHANGED <<regVars, sent>> /\ pc'[h] = "recv"]_vars

\* a send_to_task_subscribers call of event e is in progress
InFanout(e) ==
    \/ pc[e] = "send"
    \/ pc[e] = "lock" /\ args[e].op = "disconnect"

\* the clients of the send_to_client calls that have returned, in call order
Tried(results) == [i \in 1..Len(results) |-> results[i].client]

\* C12: send_to_task_subscribers calls send_to_client for exactly the
\* clients that were in the subscriber set when it was called, each once,
\* whatever happens to the set meanwhile: the clients already served, the one
\* being served and the ones still to come are the snapshot without
\* repetition; and its count is the number of calls that returned True, each
\* of which wrote the message on a channel of that client.
C12_FanoutCoversSnapshot ==
    \A e \in Events :
        InFanout(e) =>
            LET f    == fanout[e]
                all  == Tried(f.results) \o <<Current(e)>> \o f.subscribers
            IN  /\ {all[i] : i \in 1..Len(all)} = f.snapshot
                /\ Len(all) = Cardinality(f.snapshot)
                /\ f.success_count =
                      Cardinality({i \in 1..Len(f.results) : f.results[i].ok})
                /\ \A i \in 1..Len(f.results) :
                      f.results[i].ok =>
                          \E h \in Handlers :
                              /\ cid[h] = f.results[i].client
                              /\ \E k \in 1..Len(sent[h]) : sent[h][k] = f.message

\* C12 witness: a subscriber of the snapshot has been disconnected and
\* pruned during the fan-out, which went on to the next client
C12_Witness ==
    \E e \in Events :
        /\ pc[e] = "send"
        /\ \E i \in 1..Len(fanout[e].results) :
              /\ ~fanout[e].results[i].ok
              /\ \A t \in DOMAIN task_subscriptions :
                    fanout[e].results[i].client \notin task_subscriptions[t]
        /\ Current(e) \in fanout[e].snapshot

\* C13: for one inbound event no connection receives the same push more than
\* once, also when it is subscribed to several task ids the event relates to
\* (the local task id and the external task id).
C13_AtMostOnce ==
    \A h \in Handlers : \A i, j \in 1..Len(sent[h]) :
        (i < j /\ sent[h][i].event_id # NoEvent) => sent[h][i] # sent[h][j]

\* ===================================================================
\* Properties of the registry operations (SpecRegistry)
\* ===================================================================

\* the call made in this step repeats the call made last
Repeated(op) == args[Caller].op = op /\ args'[Caller] = args[Caller]

\* the call made in this step is about a client or a task that was never
\* registered
AboutStranger(op) ==
    /\ args'[Caller].op = op
    /\ args'[Caller].client = StrangerClient \/ args'[Caller].task_id = StrangerTask

\* C14: a second disconnect(client_id), or a second
\* unsubscribe_task(client_id, task_id), with the same identifiers leaves the
\* connection table and both subscription indices as the first call left
\* them, and so does a disconnect or unsubscribe_task of a client or task
\* that was never registered (no exception: the operations have no raising
\* branch).
C14_Idempotent ==
    [][(\/ Repeated("disconnect") \/ Repeated("unsubscribe")
        \/ AboutStranger("disconnect") \/ AboutStranger("unsubscribe"))
          => UNCHANGED regVars]_vars

\* C14 witness: the call made last was a disconnect of a client that was
\* connected and subscribed before, the state a second disconnect starts from
C14_Witness ==
    /\ args[Caller].op = "disconnect"
    /\ args[Caller].client \notin DOMAIN active_connections
    /\ args[Caller].client \in Clients
    /\ active_connections # EmptyDict
    /\ task_subscriptions # EmptyDict


\* C21: a second subscribe_task with the same (client_id, task_id) leaves
\* the connection table and both subscription indices as the first call left
\* them.
C21_SubscribeIdempotent ==
    [][Repeated("subscribe") => UNCHANGED regVars]_vars

\* C21 witness: the call made last was a subscribe_task of a connected
\* client, which left the pair in both indices: the state a second call
\* starts from
C21_Witness ==
    /\ args[Caller].op = "subscribe"
    /\ is_connected(args[Caller].client)
    /\ args[Caller].task_id \in DOMAIN task_subscriptions
    /\ args[Caller].client \in task_subscriptions[args[Caller].task_id]
    /\ args[Caller].task_id \in client_tasks[args[Caller].client]

\* ===================================================================
\* Properties of the client commands (Spec)
\* ===================================================================

\* handler h runs the critical section of subscribe_task in this step: its
\* read loop received a subscribe command while the lock was free, or it was
\* waiting for the lock with the call and is given it
SubscribeRuns(h) ==
    \/ /\ lock = <<>>
       /\ \E raw_data \in RawMessages :
             /\ raw_data.action = "subscribe" /\ ~Falsy(raw_data.task_id)
             /\ Receive(h, raw_data)
    \/ /\ pc[h] = "lock" /\ args[h].op = "subscribe"
       /\ Locked(h)

\* C15: subscribe_task for a client_id with no live connection is a no-op:
\* the connection table and both subscription indices stay as they are (no
\* entry appears for the task_id), no frame is written to any channel, and
\* the caller is back in its read loop, no exception having been raised.
C15_SubscribeUnconnectedNoOp ==
    [][\A h \in Handlers :
          (SubscribeRuns(h) /\ ~is_connected(cid[h]))
             => /\ UNCHANGED <<regVars, sent, closeRequested>>
                /\ pc'[h] = "recv"]_vars

\* C15 witness: a subscribe_task call is about to enter its critical section,
\* first in the lock's queue, and its client_id has no live connection
C15_Witness ==
    \E h \in Handlers :
        /\ pc[h] = "lock" /\ args[h].op = "subscribe"
        /\ Head(lock) = h
        /\ chan[h] = "open"
        /\ ~is_connected(args[h].client)


\* handler h receives a subscribe or unsubscribe command whose task_id is
\* missing, null or empty in this step
ReceivesWithoutTaskId(h) ==
    \E raw_data \in RawMessages :
        /\ raw_data.json = "object"
        /\ raw_data.action \in {"subscribe", "unsubscribe"}
        /\ Falsy(raw_data.task_id)
        /\ Receive(h, raw_data)

\* C16: a subscribe or unsubscribe command without a task_id is answered
\* with a push of type "error" on the sender's channel and changes no
\* registry state.
C16_NoTaskIdAnswered ==
    [][\A h \in Handlers :
          ReceivesWithoutTaskId(h)
             => /\ sent'[h] = Append(sent[h], Message("error", None, NoEvent))
                /\ UNCHANGED regVars]_vars


\* handler h receives a JSON object whose action is none of subscribe,
\* unsubscribe, ping, pong, stats (or is missing) in this step
ReceivesUnknownAction(h) ==
    \E raw_data \in RawMessages :
        /\ raw_data.json = "object"
        /\ raw_data.action \notin {"subscribe", "unsubscribe", "ping", "pong", "stats"}
        /\ Receive(h, raw_data)

\* C27: a command with an unknown or missing action is answered with a push
\* of type "error" on the sender's channel, changes no registry state and
\* leaves the connection open, its handler still in the read loop.
C27_UnknownActionAnswered ==
    [][\A h \in Handlers :
          ReceivesUnknownAction(h)
             => /\ sent'[h] = Append(sent[h], Message("error", None, NoEvent))
                /\ UNCHANGED <<regVars, chan, closeRequested>>
                /\ pc'[h] \in {"send", "recv"}]_vars

\* ===================================================================
\* Properties of the task_stopped handlers (SpecWebhook)
\* ===================================================================

\* C17: a subscriber of a task receives, for the event reporting that the
\* task finished, a push of type task_completed that carries a download_url,
\* whether or not the tracker knows a local task for it: every
\* task_completed frame written to a channel has its download_url.
C17_CompletedCarriesDownloadUrl ==
    \A h \in Handlers : \A i \in 1..Len(sent[h]) :
        sent[h][i].type = "task_completed" => sent[h][i].download_url


\* ===================================================================
\* Properties of handle_webhook_event as a whole (SpecWebhook)
\* ===================================================================

\* where the handler of an event can be: not started, suspended in one of
\* its awaits, or returned
HandlerPoints ==
    {"init", "add_event", "send", "lock", "find", "update_created", "get_progress",
     "get_stopped", "download", "get_updated", "update_ask", "update_stopped",
     "chain", "video", "update_completed", "update_failed", "done"}

\* the handler of event e called send_to_task_subscribers with the
\* "webhook_event" message for the event's task
ForwardedEvent(e) ==
    \E i \in 1..Len(calls[e]) :
        /\ calls[e][i].type = "webhook_event"
        /\ calls[e][i].task_id = get_task_id(event[e])

\* C18: no exception escapes handle_webhook_event: whatever a collaborator
\* raises, and also when the payload has no task_id, the handler is in one
\* of its awaits or has returned; and an event handled after one whose
\* handling raised is processed as usual, its "webhook_event" message fanned
\* out to the subscribers of its task.
C18_NoExceptionEscapes ==
    \A e \in Events :
        /\ pc[e] \in HandlerPoints
        /\ (/\ pc[e] = "done" /\ raised[e] = {}
            /\ \E d \in Events : d < e /\ raised[d] # {})
              => ForwardedEvent(e)

\* C18 witness: the handling of a payload without task_id raised and
\* returned, and the next event went through without a failure and its
\* message was written to a subscriber's channel
C18_Witness ==
    \E d, e \in Events :
        /\ d < e
        /\ pc[d] = "done" /\ "get_task_id" \in raised[d]
        /\ pc[e] = "done" /\ raised[e] = {}
        /\ \E h \in Handlers : \E i \in 1..Len(sent[h]) :
              sent[h][i].event_id = {e} /\ sent[h][i].type = "webhook_event"


\* ===================================================================
\* Properties of the subscription index (Spec)
\* ===================================================================

\* C19: every task entry of the task-to-subscribers index has a non-empty
\* subscriber set: disconnect and unsubscribe_task delete the entry in the
\* critical section that removes its last subscriber.
C19_NoEmptyTaskEntry ==
    \A t \in DOMAIN task_subscriptions : task_subscriptions[t] # {}

\* C19 witness: a subscription to a task was acknowledged, and the task has
\* no entry any more
C19_Witness ==
    \E h \in Handlers : \E i \in 1..Len(sent[h]) :
        /\ sent[h][i].type = "subscribed"
        /\ sent[h][i].task_id \notin DOMAIN task_subscriptions


\* ===================================================================
\* Properties of send_to_task_subscribers on a task without subscribers
\* (SpecWebhook)
\* ===================================================================

\* the send_to_task_subscribers calls the handler of event e makes in this
\* step, as positions of calls'[e]
NewCalls(e) == (Len(calls[e]) + 1)..Len(calls'[e])

\* the handler of event e starts this step in a send_json that raises, so
\* that send_to_client runs disconnect before anything else
FailingSend(e) == pc[e] = "send" /\ chan[snd[e].ws] # "open"

\* C20: send_to_task_subscribers for a task_id that has no subscribers (no
\* entry in the task-to-subscribers index) returns 0 at once and without an
\* error, the caller going on with what follows the call; it writes no frame
\* of its message to any channel and changes no registry state.
C20_NoSubscribersNoEffect ==
    [][\A e \in Events : \A i \in NewCalls(e) :
          calls'[e][i].task_id \notin DOMAIN task_subscriptions'
             => /\ \A h \in Handlers : \A j \in (Len(sent[h]) + 1)..Len(sent'[h]) :
                      ~(/\ sent'[h][j].event_id = {e}
                        /\ sent'[h][j].task_id = calls'[e][i].task_id
                        /\ sent'[h][j].type = calls'[e][i].type)
                /\ ~(/\ pc'[e] = "send"
                     /\ snd'[e].msg.task_id = calls'[e][i].task_id
                     /\ snd'[e].msg.type = calls'[e][i].type)
                /\ pc'[e] \in HandlerPoints
                /\ ~FailingSend(e) => UNCHANGED regVars]_vars

\* C20 witness: the handler of an event for a task nobody ever subscribed to
\* has made its send_to_task_subscribers calls and returned, and no frame of
\* the event is on any channel
C20_Witness ==
    \E e \in Events :
        /\ pc[e] = "done"
        /\ Len(calls[e]) > 1
        /\ \A i \in 1..Len(calls[e]) :
              /\ calls[e][i].task_id \notin DOMAIN task_subscriptions
              /\ \A h \in Handlers : \A j \in 1..Len(sent[h]) :
                    sent[h][j].task_id # calls[e][i].task_id
        /\ \A h \in Handlers : \A j \in 1..Len(sent[h]) : sent[h][j].event_id # {e}


\* ===================================================================
\* Properties of the read timeout and the heartbeat (Spec)
\* ===================================================================

\* the ping of handler h's read timeout is in flight
Probing(h) == pc[h] = "send" /\ snd[h].msg.type = "ping" /\ snd[h].ret = "recv"

\* coroutine p runs the critical section of disconnect(client_id) in this
\* step: given the lock it waited for, or at once after a send_json that
\* raised, or at once in the finally block of its endpoint
Disconnects(p, client_id) ==
    \/ /\ pc[p] = "lock" /\ Head(lock) = p
       /\ args[p].op = "disconnect" /\ args[p].client = client_id
    \/ /\ lock = <<>> /\ pc[p] = "send"
       /\ snd[p].client = client_id /\ chan[snd[p].ws] # "open"
    \/ /\ lock = <<>> /\ p \in Handlers /\ pc[p] = "recv"
       /\ cid[p] = client_id /\ pc'[p] = "done"

\* C22: silence never closes a connection.  The read timeout only sends a
\* ping; when that send succeeds the handler is back in its read loop, and
\* neither step touches the registry or a channel.  A client_id leaves the
\* connection table only in a step that runs disconnect, after a failed send
\* or in an endpoint's finally block.
C22_SilenceNeverCloses ==
    [][/\ \A h \in Handlers :
             Timeout(h)
                => /\ UNCHANGED <<regVars, chan, closeRequested>>
                   /\ pc'[h] \in {"send", "recv"}
                   /\ (pc'[h] = "send" => Probing(h)')
       /\ \A h \in Handlers :
             (Probing(h) /\ SendOk(h))
                => /\ UNCHANGED <<regVars, chan, closeRequested>>
                   /\ pc'[h] = "recv"
       /\ \A c \in DOMAIN active_connections :
             c \notin DOMAIN active_connections'
                => \E p \in Procs : Disconnects(p, c)]_vars

\* C22 witness: a handler is back in its read loop after its ping went out on
\* its open channel, still registered and still subscribed
C22_Witness ==
    \E h \in Handlers :
        /\ pc[h] = "recv" /\ chan[h] = "open"
        /\ sent[h] # <<>> /\ sent[h][Len(sent[h])].type = "ping"
        /\ is_connected(cid[h]) /\ active_connections[cid[h]] = h
        /\ client_tasks[cid[h]] # {}


\* ===================================================================
\* Properties of connect (Spec)
\* ===================================================================

\* connect() returned True to the endpoint of handler h: the endpoint went on
\* to create its heartbeat task
ConnectReturnedTrue(h) == heartbeat[h] # "none"

\* connect() returned False to the endpoint of handler h, which returned
ConnectReturnedFalse(h) == pc[h] = "done" /\ heartbeat[h] = "none"

\* C23: connect returns False only if websocket.accept() failed; once the
\* handshake succeeded it returns True, and then a "connected"
\* acknowledgement has been sent on the new channel.
C23_ConnectAcknowledged ==
    \A h \in Handlers :
        /\ ConnectReturnedFalse(h) => chan[h] = "dead" /\ sent[h] = <<>>
        /\ ConnectReturnedTrue(h) =>
              \E i \in 1..Len(sent[h]) : sent[h][i].type = "connected"


\* no other connection handler has been opened under the client_id of h
OnlyUserOfId(h) == \A g \in Handlers \ {h} : cid[g] # cid[h]

\* C29: whenever connect returns True, the client_id is registered with the
\* new channel at the moment of return, provided no other connection used
\* that client_id.
C29_ReturnedTrueIsRegistered ==
    [][\A h \in Handlers :
          (~ConnectReturnedTrue(h) /\ heartbeat'[h] # "none" /\ OnlyUserOfId(h))
             => /\ cid[h] \in DOMAIN active_connections'
                /\ active_connections'[cid[h]] = h]_vars


\* ===================================================================
\* Properties of the pushed messages (SpecCreate)
\* ===================================================================

\* C24: every message pushed to a client has a type and a timestamp:
\* acknowledgements, error replies, pings and pongs, task events, and the
\* failure notifications of the task-creation endpoints.
C24_TypeAndTimestamp ==
    \A h \in Handlers : \A i \in 1..Len(sent[h]) :
        sent[h][i].type # None /\ sent[h][i].timestamp


\* ===================================================================
\* Properties of get_stats (Spec)
\* ===================================================================

\* the task-to-subscribers indices (no entry empty) that give the same
\* snapshot as the current one
SameSnapshot ==
    {subscriptions \in [DOMAIN task_subscriptions -> (SUBSET Clients) \ {{}}] :
        StatsOf(active_connections, subscriptions) = get_stats}

\* C25: the snapshot of get_stats matches the registry: active_connections
\* is the number of entries of the connection table, the
\* tasks-with-subscribers figure is the number of tasks that have at least
\* one subscriber, and the snapshot gives the subscriber count of each such
\* task, that is, the count can be read off the snapshot: two indices with
\* the same snapshot have the same counts.
C25_StatsMatchRegistry ==
    /\ get_stats.active_connections = Cardinality(DOMAIN active_connections)
    /\ get_stats.task_subscriptions =
          Cardinality({t \in DOMAIN task_subscriptions : task_subscriptions[t] # {}})
    /\ \A subscriptions \in SameSnapshot : \A t \in DOMAIN task_subscriptions :
          Cardinality(subscriptions[t]) = Cardinality(task_subscriptions[t])


\* handler h's connection is not the one the table holds for its client_id
Evicted(h) ==
    /\ heartbeat[h] = "running"
    /\ ~(is_connected(cid[h]) /\ active_connections[cid[h]] = h)

\* C26: the heartbeat of a connection that was evicted from the registry
\* exits: whenever a connection with a running heartbeat is not in the
\* table, its heartbeat eventually is no longer running.
C26_EvictedHeartbeatExits ==
    \A h \in Handlers : Evicted(h) ~> (heartbeat[h] # "running")

\* the connection that InitEvicted starts from, as Spec reaches it: in its
\* read loop on an open channel, heartbeat running, not in the table, the
\* other endpoint over
EvictedLeftOpen ==
    \E h \in Handlers :
        /\ pc[h] = "recv" /\ chan[h] = "open" /\ heartbeat[h] = "running"
        /\ active_connections = EmptyDict /\ task_subscriptions = EmptyDict
        /\ \A g \in Handlers \ {h} : pc[g] = "done"


\* ===================================================================
\* The two subscription indices (SpecRegistry)
\* ===================================================================

get_task_subscribers(task_id) ==
    IF task_id \in DOMAIN task_subscriptions
    THEN task_subscriptions[task_id] ELSE {}

get_client_tasks(client_id) ==
    IF client_id \in DOMAIN client_tasks
    THEN client_tasks[client_id] ELSE {}

\* C28: the two subscription indices are mirror images in every reachable
\* state: client c is among the subscribers of task t exactly when t is
\* among the tasks recorded for c.
C28_IndicesMirror ==
    \A c \in Clients \cup {StrangerClient}, t \in Tasks \cup {StrangerTask} :
        c \in get_task_subscribers(t) <=> t \in get_client_tasks(c)


\* ===================================================================
\* The liveness state machine of a connection (SpecEvicted)
\* ===================================================================

\* ACTIVE: the endpoint of h waits in its read loop on an open channel
Active(h) == pc[h] = "recv" /\ chan[h] = "open"

\* the ping of handler h's read timeout is in flight on a channel that
\* fails the send
ProbeFails(h) == Probing(h) /\ chan[snd[h].ws] # "open"

\* CLOSED: the endpoint of h has left its read loop and returned, and the
\* connection table does not hold its channel
Closed(h) ==
    /\ pc[h] = "done"
    /\ ~(is_connected(cid[h]) /\ active_connections[cid[h]] = h)

\* C30: from ACTIVE, the read timeout leads to PROBE, a ping written to the
\* client's channel; a ping whose send fails leads to CLOSED, the connection
\* out of the table and its read loop over.
C30_LivenessStateMachine ==
    /\ [][\A h \in Handlers :
             (Active(h) /\ Timeout(h))
                => /\ Probing(h)'
                   /\ sent'[h] = Append(sent[h], Message("ping", None, NoEvent))]_vars
    /\ \A h \in Handlers : ProbeFails(h) ~> Closed(h)


\* ===================================================================
\* Fan-outs and subscription changes (SpecFanout)
\* ===================================================================

\* the frames of event e written on channel h in this step
NewFrames(e, h) ==
    {j \in (Len(sent[h]) + 1)..Len(sent'[h]) : sent'[h][j].event_id = {e}}

C32_UnsubscribedGetsNothing ==
    [][\A e \in Events : \A c \in Clients :
          /\ (/\ NewCalls(e) # {} /\ pc'[e] = "send"
              /\ \/ snd'[e].msg.task_id \notin DOMAIN task_subscriptions'
                 \/ c \notin task_subscriptions'[snd'[e].msg.task_id]
                 \/ c \notin DOMAIN client_tasks'
                 \/ snd'[e].msg.task_id \notin client_tasks'[c])
                => /\ snd'[e].client # c
                   /\ c \notin fanout'[e].snapshot
                   /\ \A h \in Handlers : NewFrames(e, h) # {} => cid[h] # c
          /\ (/\ NewCalls(e) = {} /\ pc'[e] = "send" /\ snd'[e] # snd[e])
                => /\ snd'[e].client \in fanout[e].snapshot
                   /\ fanout'[e].snapshot = fanout[e].snapshot]_vars

\* C32 witness: client h was a subscriber of t1 when the first fan-out of
\* the event started and got its frame, then unsubscribed; the event's next
\* fan-out for t1 has reached the other subscriber only, the channel of h
\* being open, and the handler has returned
C32_Witness ==
    \E e \in Events : \E h, g \in Handlers :
        /\ h # g /\ chan[h] = "open" /\ is_connected(cid[h])
        /\ pc[e] = "done"
        /\ cid[h] \notin get_task_subscribers(TaskIds[1])
        /\ \E j \in 1..Len(sent[h]) :
              sent[h][j].event_id = {e} /\ sent[h][j].task_id = TaskIds[1]
        /\ \E k \in 1..Len(sent[g]) :
              /\ sent[g][k].event_id = {e} /\ sent[g][k].task_id = TaskIds[1]
              /\ \A j \in 1..Len(sent[h]) : sent[h][j] # sent[g][k]


\* ===================================================================
\* Frame of disconnect and unsubscribe_task (SpecRegistry)
\* ===================================================================

\* what client d has in the registry is the same before and after the step,
\* but for the tasks of `but` in the two subscription indices
KeptFor(d, but) ==
    /\ (d \in DOMAIN active_connections) = (d \in DOMAIN active_connections')
    /\ d \in DOMAIN active_connections => active_connections'[d] = active_connections[d]
    /\ (d \in DOMAIN client_tasks) = (d \in DOMAIN client_tasks')
    /\ d \in DOMAIN client_tasks => client_tasks'[d] \ but = client_tasks[d] \ but
    /\ \A t \in (Tasks \cup {StrangerTask}) \ but :
          (d \in get_task_subscribers(t)) = (d \in get_task_subscribers(t)')

\* C33: disconnect(c) and unsubscribe_task(c, t) leave unchanged what
\* belongs to other clients: their connection-table entries and their
\* membership in every subscriber set; unsubscribe_task also leaves c's own
\* connection and c's subscriptions to tasks other than t.
C33_OthersUntouched ==
    [][/\ \A c \in Clients \cup {StrangerClient} :
             DisconnectCall(c)
                => \A d \in (Clients \cup {StrangerClient}) \ {c} : KeptFor(d, {})
       /\ \A c \in Clients \cup {StrangerClient} : \A t \in Tasks \cup {StrangerTask} :
             UnsubscribeCall(c, t)
                => /\ \A d \in (Clients \cup {StrangerClient}) \ {c} : KeptFor(d, {})
                   /\ KeptFor(c, {t})]_vars

\* C33 witness: the call made last was a disconnect of a client that is gone
\* from the table and from every subscriber set, while another client is
\* connected and subscribed to every task
C33_Witness ==
    /\ args[Caller].op = "disconnect"
    /\ args[Caller].client \in Clients
    /\ ~is_connected(args[Caller].client)
    /\ \A t \in Tasks : args[Caller].client \notin get_task_subscribers(t)
    /\ \E d \in Clients \ {args[Caller].client} :
          /\ is_connected(d)
          /\ \A t \in Tasks : d \in get_task_subscribers(t) /\ t \in get_client_tasks(d)


\* ===================================================================
\* Properties of retry_async and is_retryable_error (SpecRetry)
\* ===================================================================

\* the retry_async call of worker w is over
RetryOver(w) == pc[w] \in {"returned", "raised"}

\* what is left of the retry_async call of worker w: two steps for each call
\* of func still allowed, none when the call is over
RetryMeasure(w) ==
    IF pc[w] = "init" THEN 2 * MaxRetries + 4
    ELSE IF RetryOver(w) THEN 0
    ELSE 2 * (args[w].config.max_retries + 1 - args[w].func_calls)
            + (IF pc[w] = "func" THEN 1 ELSE 0)

\* C34: retry_async calls func at most max_retries + 1 times and terminates
\* (every step of the call lowers RetryMeasure, which is never negative).  It
\* returns the result of the first call that succeeds; it re-raises at once
\* the error of a call that is not retryable; and it re-raises the last
\* error when the (max_retries + 1)-th call failed with a retryable error.
\* Once it has returned or raised, func is not called again.
C34_RetryBounded ==
    /\ [](\A w \in Workers :
            pc[w] # "init" =>
               LET a == args[w] IN
               /\ a.func_calls >= 0 /\ a.func_calls <= a.config.max_retries + 1
               /\ RetryMeasure(w) >= 0
               /\ pc[w] = "returned" => a.outcome = "result"
               /\ (pc[w] = "raised" /\ a.func_calls > 0) =>
                     /\ a.outcome = a.last_error
                     /\ \/ ~is_retryable_error(a.last_error, a.config)
                        \/ a.func_calls = a.config.max_retries + 1)
    /\ [][\A w \in Workers :
             /\ RetryMeasure(w)' < RetryMeasure(w)
             /\ RetryOver(w) => args'[w] = args[w]
             /\ (pc[w] = "func" /\ pc'[w] = "sleep")
                   => /\ is_retryable_error(args'[w].last_error, args[w].config)
                      /\ args[w].func_calls <= args[w].config.max_retries]_vars

\* C34 witness: with max_retries at its largest, every call of func failed
\* with a retryable error and the last error was re-raised
C34_Witness ==
    \E w \in Workers :
        /\ pc[w] = "raised"
        /\ args[w].config.max_retries = MaxRetries
        /\ args[w].func_calls = MaxRetries + 1
        /\ is_retryable_error(args[w].last_error, args[w].config)
        /\ args[w].outcome = args[w].last_error


\* C36: is_retryable_error goes by the configured status codes: for the last
\* error a retry_async call caught, a ManusAPIException is reported
\* retryable only when its detail carries one of
\* config.retryable_status_codes, and an error whose type is not in
\* config.retryable_exceptions is not reported retryable.
C36_StatusCodesDecide ==
    \A w \in Workers :
        (pc[w] \in {"sleep", "raised"} /\ args[w].func_calls > 0) =>
            LET error  == args[w].last_error
                config == args[w].config
            IN  /\ error.type \notin config.retryable_exceptions
                      => ~is_retryable_error(error, config)
                /\ (error.type = "ManusAPIException" /\ is_retryable_error(error, config))
                      => \E status_code \in config.retryable_status_codes :
                            str_in(str(status_code), error.detail)


\* ===================================================================
\* Properties of wait_for_completion (SpecPoll)
\* ===================================================================

\* the statuses of seq that differ from the one before them, last being the
\* status before the first
RECURSIVE Changes(_, _)
Changes(seq, last) ==
    IF seq = <<>> THEN <<>>
    ELSE IF Head(seq) = last THEN Changes(Tail(seq), last)
    ELSE <<Head(seq)>> \o Changes(Tail(seq), Head(seq))

\* C35: wait_for_completion ends in one of three ways: it returns the task
\* once the polled status is "completed", raises RuntimeError once it is
\* "failed", raises TimeoutError once the elapsed time exceeds the timeout.
\* on_status_change is called once per change of the polled status, and
\* whether it returns or raises, the loop goes on as the status says.
C35_PollOutcomes ==
    /\ [](\A w \in Workers :
            args[w].op = "wait_for_completion" =>
               LET a == args[w] IN
               /\ pc[w] = "returned"
                     => /\ a.outcome = "task"
                        /\ a.polled # <<>> /\ a.polled[Len(a.polled)] = "completed"
               /\ pc[w] = "raised"
                     => \/ /\ a.outcome = "RuntimeError"
                           /\ a.polled # <<>> /\ a.polled[Len(a.polled)] = "failed"
                        \/ /\ a.outcome = "TimeoutError"
                           /\ a.clock > a.timeout
               /\ a.notified = IF a.on_status_change THEN Changes(a.polled, None)
                               ELSE <<>>)
    /\ [][\A w \in Workers :
             pc[w] = "callback"
                => /\ pc'[w] = IF args[w].status = "completed"
                               THEN IF args[w].convert THEN "get_converted" ELSE "returned"
                               ELSE IF args[w].status = "failed" THEN "raised"
                               ELSE "sleep"
                   /\ args'[w].polled = args[w].polled
                   /\ args'[w].notified = args[w].notified]_vars

====
